---- MODULE Spec2Model ----
(***************************************************************************)
(* Device-side runtime of the Host-Device Communication (HDC) protocol,    *)
(* STM32/hdc_device/hdc_device.c: the double-buffered TX composition        *)
(* engine, the packet composer, the packet framer and the request          *)
(* dispatcher, as a state machine.                                          *)
(*                                                                         *)
(* The main thread is cooperative: one operation runs at a time.  An       *)
(* operation is the list of calls it makes (variable calls); the head of   *)
(* the list is the call in progress.  The only places where the main       *)
(* thread can be overtaken by the TX-complete interrupt in a way that      *)
(* matters are the busy-waits on isDmaTxComplete, which are states of      *)
(* their own (pc = "wait", pc = "flushwait").                               *)
(***************************************************************************)
EXTENDS Integers, Sequences, FiniteSets, TLC

----------------------------------------------------------------------------
(* Program constants *)

\* hdc_device.h: PayloadSize ; Checksum ; Terminator
HDC_PACKET_OVERHEAD == 3

\* hdc_device.h: 0x1E
HDC_PACKET_TERMINATOR == 30

\* hdc_device_conf.h
HDC_MAX_REQ_MESSAGE_SIZE == 128

\* hdc_device_conf.h
HDC_BUFFER_SIZE_TX == 258

\* The literal 255 of HDC_Compose_Packets_From_Stream: payload bytes of a full packet
FULL_PACKET_PAYLOAD == 255

HDC_BUFFER_SIZE_RX == HDC_MAX_REQ_MESSAGE_SIZE + HDC_PACKET_OVERHEAD

Byte == 0..255

\* A NULL pointer into the TX buffers; a pointer is a buffer index and an offset.
NullPtr == [buf |-> -1, off |-> 0]

\* pNumBytesInBuffer == NULL
NullIdx == -1

----------------------------------------------------------------------------
(* Identifiers of the protocol, hdc_device.h *)

HDC_MessageTypeID_Meta == 240
HDC_MessageTypeID_Echo == 241
HDC_MessageTypeID_Command == 242
HDC_MessageTypeID_Event == 243

HDC_FeatureID_Core == 0

HDC_CommandID_GetPropertyValue == 240
HDC_CommandID_SetPropertyValue == 241

HDC_DataTypeID_UINT8 == 1
HDC_DataTypeID_UINT16 == 2
HDC_DataTypeID_UINT32 == 4
HDC_DataTypeID_INT8 == 17
HDC_DataTypeID_INT16 == 18
HDC_DataTypeID_INT32 == 20
HDC_DataTypeID_FLOAT == 36
HDC_DataTypeID_DOUBLE == 40
HDC_DataTypeID_UTF8 == 175
HDC_DataTypeID_BOOL == 177
HDC_DataTypeID_BLOB == 191

HDC_PropertyID_LogEventThreshold == 240
HDC_PropertyID_FeatureState == 241

\* PropertyIDs hdc_device.c names in its descriptors and hdc_device.h gives no
\* value: the model takes values that no other descriptor has
HDC_PropertyID_AvailableProperties == 247

HDC_PropertyID_AvailableFeatures == 250

HDC_PropertyID_MaxReqMsgSize == 251

HDC_EventID_Log == 240
HDC_EventID_FeatureStateTransition == 241

HDC_EventLogLevel_DEBUG == 10
HDC_EventLogLevel_INFO == 20
HDC_EventLogLevel_WARNING == 30
HDC_EventLogLevel_ERROR == 40
HDC_EventLogLevel_CRITICAL == 50

\* feature_core.h
Core_State_Off == 0
Core_State_Initializing == 1
Core_State_Ready == 2
Core_State_Error == 255

\* The codes a Command reply carries in Msg[3].  hdc_device.c names them
\* HDC_CommandErrorCode_*, feature_core.c HDC_Descriptor_Exc_*.id; their values
\* are not part of the sources at hand and are those of the protocol's table
\* of predefined exceptions.
HDC_CommandErrorCode_NO_ERROR == 0
HDC_CommandErrorCode_UNKNOWN_FEATURE == 241
HDC_CommandErrorCode_UNKNOWN_COMMAND == 242
HDC_CommandErrorCode_INCORRECT_COMMAND_ARGUMENTS == 243
HDC_CommandErrorCode_INVALID_PROPERTY_VALUE == 243
HDC_CommandErrorCode_UNKNOWN_PROPERTY == 245
HDC_CommandErrorCode_PROPERTY_IS_READONLY == 246
HDC_Descriptor_Exc_InvalidArgs == 243

\* feature_core.c: Core_HDC_Exc_DivZero.id
Core_HDC_Exc_DivZero == 1

\* The texts of the driver's log events, as bytes
Text_MalformedCommandRequest ==
    <<77, 97, 108, 102, 111, 114, 109, 101, 100, 32, 99, 111, 109, 109, 97,
      110, 100, 32, 114, 101, 113, 117, 101, 115, 116>>

Text_UnknownMessageType ==
    <<85, 110, 107, 110, 111, 119, 110, 32, 109, 101, 115, 115, 97, 103, 101,
      32, 116, 121, 112, 101>>

Text_ReadingFrameErrors ==
    <<82, 101, 97, 100, 105, 110, 103, 45, 102, 114, 97, 109, 101, 45, 101,
      114, 114, 111, 114, 115, 32, 100, 101, 116, 101, 99, 116, 101, 100, 32,
      119, 104, 105, 108, 101, 32, 112, 97, 114, 115, 105, 110, 103, 32, 114,
      101, 113, 117, 101, 115, 116, 32, 109, 101, 115, 115, 97, 103, 101, 32,
      111, 110, 32, 100, 101, 118, 105, 99, 101, 46>>

----------------------------------------------------------------------------
(* Bounds of the model *)

\* Messages whose composition may be started in one behaviour
MaxMsgs == 2

\* Data-carrying calls of HDC_Compose_Packets_From_Stream per message
MaxAppends == 3

\* Message lengths the application composes (around the 255 and 510 edges)
MsgLens == {0, 1, 254, 255, 256, 510}

\* Sizes of the pieces a message is appended in (besides "all that is left")
ChunkSizes == {0, 1, 254, 255, 256}

\* Buffer sizes tried where a claim is about every HDC_BUFFER_SIZE_TX >= 258
TxCaps == {258, 261, 516}

\* Bursts the host sends in one behaviour
MaxReqs == 2

\* Garbage bytes in front of a packet: at most MaxGarbage bytes out of GarbageBytes
MaxGarbage == 3

GarbageBytes == {0, 1, 30, 100, 255}

\* Lengths of the request payloads given to the framer
FramedLens == {0, 1, 4, 125}

\* Arbitrary RX buffer contents: WindowLen bytes out of WindowBytes, of which
\* the first 0..WindowLen are the chunk that was received
WindowLen == 5

WindowBytes == {0, 1, 2, 30, 255}

----------------------------------------------------------------------------
VARIABLES
    TX_CAP,                \* the configured HDC_BUFFER_SIZE_TX
    BufferTx,              \* hHDC.BufferTx[2][HDC_BUFFER_SIZE_TX]
    NumBytesInBufferTx,    \* hHDC.NumBytesInBufferTx[2]
    isDmaTxComplete,       \* hHDC.isDmaTxComplete
    currentDmaBufferTx,    \* hHDC.currentDmaBufferTx
    pPktStart,             \* static of HDC_Compose_Packets_From_Stream
    pPktEnd,               \* static of HDC_Compose_Packets_From_Stream
    pNumBytesInBuffer,     \* static of HDC_Compose_Packets_From_Stream
    pc,                    \* "run" | "wait" | "flushwait": position of the main thread
    calls,                 \* the calls the running operation still has to make
    pos,                   \* pDataEnd - pDataStart of the stream call in progress
    linkBusy,              \* the link: a transmit is outstanding
    linkBuf,               \* the link: index of the TX buffer being transmitted
    linkLen,               \* the link: length of the outstanding transmit
    linkData,              \* the link: bytes handed over by the outstanding transmit
    sent,                  \* history: all bytes handed to HAL_UART_Transmit_DMA
    txOverlap,             \* history: a transmit was started while one was outstanding
    errorHandler,          \* Error_Handler() was called
    pkts,                  \* history: the packets finalized, [m: message number, b: bytes]
    msgs,                  \* history: the data passed to the composer, per message
    app,                   \* the application's message in progress: [m, fed, n]
    BufferRx,              \* hHDC.BufferRx[HDC_BUFFER_SIZE_RX]
    NumBytesInBufferRx,    \* hHDC.NumBytesInBufferRx
    isDmaRxComplete,       \* hHDC.isDmaRxComplete
    rxPos,                 \* the link: offset in BufferRx the RX DMA writes next
    FeatureState,          \* Features[i]->FeatureState
    LogEventThreshold,     \* Features[i]->LogEventThreshold
    led_blinking_rate,     \* feature_core.c: the variable behind property 0x12
    Features,              \* hHDC.Features, hHDC.NumFeatures being its length
    CustomMsgRouter,       \* hHDC.CustomMsgRouter
    mem,                   \* the variables behind the properties of TypedProperties
    host,                  \* history: the last burst sent, [n, req, junk, phase, base]
    parsed                 \* the result of the last HDC_ParsePacket: [pkt, err]

vars == <<TX_CAP, BufferTx, NumBytesInBufferTx, isDmaTxComplete, currentDmaBufferTx,
          pPktStart, pPktEnd, pNumBytesInBuffer, pc, calls, pos,
          linkBusy, linkBuf, linkLen, linkData, sent, txOverlap, errorHandler,
          pkts, msgs, app, BufferRx, NumBytesInBufferRx, isDmaRxComplete, rxPos,
          FeatureState, LogEventThreshold, led_blinking_rate, Features, CustomMsgRouter,
          mem, host, parsed>>

rxVars == <<BufferRx, NumBytesInBufferRx, isDmaRxComplete, rxPos>>
featVars == <<FeatureState, LogEventThreshold, led_blinking_rate, Features, CustomMsgRouter,
              mem>>
devVars == <<rxVars, featVars, host, parsed>>
txVars == <<BufferTx, NumBytesInBufferTx, isDmaTxComplete, currentDmaBufferTx>>
linkVars == <<linkBusy, linkBuf, linkLen, linkData, sent, txOverlap>>
streamVars == <<pPktStart, pPktEnd, pNumBytesInBuffer>>

----------------------------------------------------------------------------
(* Helpers on byte arrays *)

Min(a, b) == IF a < b THEN a ELSE b

\* The n bytes of array buf from offset off, as a sequence
Slice(buf, off, n) == [i \in 1..n |-> buf[off + i - 1]]

\* memcpy(buf + off, data, Len(data))
Memcpy(buf, off, data) ==
    [i \in DOMAIN buf |->
        IF i >= off /\ i < off + Len(data) THEN data[i - off + 1] ELSE buf[i]]

\* The sum of s[lo..hi] as a uint8_t (halving, to keep the evaluation shallow)
RECURSIVE SumRange(_, _, _)
SumRange(s, lo, hi) ==
    IF lo > hi THEN 0
    ELSE IF lo = hi THEN s[lo] % 256
    ELSE LET mid == (lo + hi) \div 2
         IN (SumRange(s, lo, mid) + SumRange(s, mid + 1, hi)) % 256

\* "checksum += *p" over the bytes of s, in a uint8_t
SumBytes(s) == SumRange(s, 1, Len(s))

RECURSIVE Flatten(_)
Flatten(ss) == IF ss = <<>> THEN <<>> ELSE ss[1] \o Flatten(Tail(ss))

----------------------------------------------------------------------------
(* The calls an operation is made of *)

\* HDC_Compose_Packets_From_Stream(data, size); size is -1 (begin), -2 (end) or Len(data)
StreamCall(data, size) == [op |-> "stream", data |-> data, size |-> size]

BeginCall == StreamCall(<<>>, -1)

EndCall == StreamCall(<<>>, -2)

DataCall(data) == StreamCall(data, Len(data))

\* HDC_StartTransmittingAnyPendingPackets()
PendingCall == [op |-> "pending", data |-> <<>>, size |-> 0]

\* The timed wait loop of HDC_Flush
FlushWaitCall == [op |-> "flushwait", data |-> <<>>, size |-> 0]

\* The transmit part of HDC_Work
WorkTxCall == [op |-> "worktx", data |-> <<>>, size |-> 0]

\* The receive part of HDC_Work: HDC_ProcessRxBuffer()
RxCall == [op |-> "rx", data |-> <<>>, size |-> 0]

\* HDC_FeatureStateTransition(Features[i], newState)
TransitionCall(i, newState) == [op |-> "transition", data |-> <<i, newState>>, size |-> 0]

\* NVIC_SystemReset()
ResetCall == [op |-> "reset", data |-> <<>>, size |-> 0]

Idle == pc = "run" /\ calls = <<>> /\ ~errorHandler

Running(op) == pc = "run" /\ ~errorHandler /\ calls # <<>> /\ Head(calls).op = op

----------------------------------------------------------------------------
(* The link: HAL_UART_Transmit_DMA and its completion *)

\* HAL_UART_Transmit_DMA(huart, BufferTx[b], Len(data)) != HAL_OK -> Error_Handler(),
\* data being the bytes of buffer b handed over.
\* The HAL refuses a transmit of no bytes and a transmit while one is outstanding.
StartTx(b, data) ==
    IF Len(data) = 0 \/ linkBusy
      THEN /\ errorHandler' = TRUE
           /\ txOverlap' = (txOverlap \/ linkBusy)
           /\ UNCHANGED <<linkBusy, linkBuf, linkLen, linkData, sent>>
      ELSE /\ linkBusy' = TRUE
           /\ linkBuf' = b
           /\ linkLen' = Len(data)
           /\ linkData' = data
           /\ sent' = sent \o data
           /\ UNCHANGED <<txOverlap, errorHandler>>

\* Interrupt handler called from HAL_UART_TxCpltCallback
HDC_TxCpltCallback ==
    /\ linkBusy
    /\ ~errorHandler
    /\ isDmaTxComplete' = TRUE
    /\ linkBusy' = FALSE
    /\ UNCHANGED <<devVars, TX_CAP, BufferTx, NumBytesInBufferTx, currentDmaBufferTx,
                   streamVars, pc, calls, pos, linkBuf, linkLen, linkData, sent, txOverlap,
                   errorHandler, pkts, msgs, app>>

----------------------------------------------------------------------------
(* HDC_GetTxBufferWithCapacityForAtLeast *)

\* The buffer not being transmitted is the one being composed into.
indexOfBufferBeingComposed == IF currentDmaBufferTx = 0 THEN 1 ELSE 0

\* Mutant of HasCapacity: a request that fills the buffer exactly is refused
HasCapacityStrict(num, capacity) == num[indexOfBufferBeingComposed] + capacity < TX_CAP

\* Is there enough space left in the current composition buffer?
HasCapacity(num, capacity) == num[indexOfBufferBeingComposed] + capacity <= TX_CAP

\* Mutant of GrantedBuffer: the buffer being transmitted is handed out
GrantedBufferInDma(b) == [buf |-> 1 - b, off |-> 0]

\* The address HDC_GetTxBufferWithCapacityForAtLeast returns in *pBuffer for buffer b
GrantedBuffer(b) == [buf |-> b, off |-> 0]

\* Mutant of WaitIsOver: the busy-wait is left out
WaitSkipped == TRUE

\* The busy-wait "while (!hHDC.isDmaTxComplete);" is over
WaitIsOver == isDmaTxComplete

\* Clear the buffer that was already sent via DMA
ClearSentBuffer(num, old) == [num EXCEPT ![old] = 0]

\* What is left of the stream call c once the composer is at offset p of its data
StreamPending(c, p) == (IF c.size < 0 THEN 0 ELSE c.size) - p

\* The second half of HDC_GetTxBufferWithCapacityForAtLeast: the composition
\* buffer lacked the capacity, the transmit in progress has completed; switch
\* buffers, start transmitting the composed one, and go on in the caller.
HDC_GetTxBuffer_Switch ==
    /\ pc = "wait"
    /\ ~errorHandler
    /\ WaitIsOver
    /\ LET old == currentDmaBufferTx
           new == indexOfBufferBeingComposed
           num == ClearSentBuffer(NumBytesInBufferTx, old)
           c == Head(calls)
       IN /\ NumBytesInBufferTx' = num
          /\ currentDmaBufferTx' = new
          /\ isDmaTxComplete' = FALSE
          /\ StartTx(new, Slice(BufferTx[new], 0, num[new]))
          /\ pc' = "run"
          /\ IF c.op = "stream"
               THEN /\ IF c.size = -2
                         THEN /\ pPktStart' = NullPtr
                              /\ pPktEnd' = NullPtr
                              /\ pNumBytesInBuffer' = NullIdx
                         ELSE /\ pPktStart' = GrantedBuffer(old)
                              /\ pPktEnd' = [GrantedBuffer(old) EXCEPT !.off = @ + 1]
                              /\ pNumBytesInBuffer' = old
                    /\ IF StreamPending(c, pos) > 0
                         THEN UNCHANGED <<calls, pos>>
                         ELSE calls' = Tail(calls) /\ pos' = 0
               ELSE /\ calls' = Tail(calls)
                    /\ pos' = 0
                    /\ UNCHANGED streamVars
    /\ UNCHANGED <<devVars, TX_CAP, BufferTx, pkts, msgs, app>>

\* HDC_StartTransmittingAnyPendingPackets: request the whole buffer
HDC_StartTransmittingAnyPendingPackets ==
    /\ Running("pending")
    /\ IF HasCapacity(NumBytesInBufferTx, TX_CAP)
         THEN calls' = Tail(calls) /\ pc' = "run"
         ELSE calls' = calls /\ pc' = "wait"
    /\ UNCHANGED <<devVars, TX_CAP, txVars, streamVars, pos, linkVars, errorHandler, pkts, msgs, app>>

----------------------------------------------------------------------------
(* HDC_Compose_Packets_From_Stream *)

\* Mutant of Checksum: the "+ 1" of the two's complement is forgotten
ChecksumOnesComplement(payload) == (255 - SumBytes(payload)) % 256

\* Two's complement checksum of the payload, as a uint8_t
Checksum(payload) == (255 - SumBytes(payload) + 1) % 256

\* The packet between start and end is completed: payload size, checksum, terminator
FinalizePacket(buf, start, end) ==
    [buf EXCEPT ![start] = (end - start - 1) % 256,
                ![end] = Checksum(Slice(buf, start + 1, end - start - 1)),
                ![end + 1] = HDC_PACKET_TERMINATOR]

\* available_packet_payload at the top of the loop
AvailablePacketPayload == FULL_PACKET_PAYLOAD - (pPktEnd.off - pPktStart.off) + 1

\* Mutant of IsPacketFull: the packet is closed one byte early
IsPacketFullEarly(available, is_starting_composition) ==
    available <= 1 /\ ~is_starting_composition

\* is_packet_full
IsPacketFull(available, is_starting_composition) ==
    available = 0 /\ ~is_starting_composition

\* The capacity the composer asks for when it begins a packet
PacketCapacity == FULL_PACKET_PAYLOAD + HDC_PACKET_OVERHEAD

\* One pass through the do-while loop of the call in progress, up to the
\* busy-wait of HDC_GetTxBufferWithCapacityForAtLeast if it has to wait.
HDC_Compose_Packets_From_Stream ==
    /\ Running("stream")
    /\ LET c == Head(calls)
           is_starting_composition == c.size = -1
           is_finished_composing == c.size = -2
           b == pPktEnd.buf
           pending0 == StreamPending(c, pos)
           n == Min(pending0, AvailablePacketPayload)
           buf1 == IF n > 0
                     THEN [BufferTx EXCEPT
                             ![b] = Memcpy(@, pPktEnd.off, SubSeq(c.data, pos + 1, pos + n))]
                     ELSE BufferTx
           num1 == IF pNumBytesInBuffer = NullIdx
                     THEN NumBytesInBufferTx
                     ELSE [NumBytesInBufferTx EXCEPT ![pNumBytesInBuffer] = @ + n]
           end1 == pPktEnd.off + n
           pending == pending0 - n
           is_packet_full == IsPacketFull(AvailablePacketPayload - n, is_starting_composition)
           finalize == is_packet_full \/ is_finished_composing
           buf2 == IF finalize
                     THEN [buf1 EXCEPT ![b] = FinalizePacket(@, pPktStart.off, end1)]
                     ELSE buf1
           num2 == IF finalize
                     THEN [num1 EXCEPT ![pNumBytesInBuffer] = @ + HDC_PACKET_OVERHEAD]
                     ELSE num1
           request == is_starting_composition \/ is_packet_full
           granted == request /\ HasCapacity(num2, PacketCapacity)
       IN /\ n > 0 => pPktEnd # NullPtr
          /\ finalize => pPktStart # NullPtr
          /\ BufferTx' = buf2
          /\ NumBytesInBufferTx' = num2
          /\ pkts' = IF finalize
                       THEN Append(pkts, [m |-> Len(msgs),
                                          b |-> Slice(buf2[b], pPktStart.off,
                                                      end1 + 2 - pPktStart.off)])
                       ELSE pkts
          /\ msgs' = IF is_starting_composition THEN Append(msgs, <<>>)
                     ELSE IF c.size > 0 /\ pos = 0
                       THEN [msgs EXCEPT ![Len(msgs)] = @ \o c.data]
                     ELSE msgs
          /\ IF request /\ ~granted
               THEN /\ pc' = "wait"
                    /\ pos' = pos + n
                    /\ calls' = calls
                    /\ pPktEnd' = [pPktEnd EXCEPT !.off = end1]
                    /\ UNCHANGED <<pPktStart, pNumBytesInBuffer>>
               ELSE /\ pc' = "run"
                    /\ IF pending > 0
                         THEN calls' = calls /\ pos' = pos + n
                         ELSE calls' = Tail(calls) /\ pos' = 0
                    /\ IF is_finished_composing
                         THEN /\ pPktStart' = NullPtr
                              /\ pPktEnd' = NullPtr
                              /\ pNumBytesInBuffer' = NullIdx
                         ELSE IF request
                           THEN /\ pPktStart' = GrantedBuffer(indexOfBufferBeingComposed)
                                /\ pPktEnd' = [GrantedBuffer(indexOfBufferBeingComposed)
                                                 EXCEPT !.off = @ + 1]
                                /\ pNumBytesInBuffer' = indexOfBufferBeingComposed
                           ELSE /\ pPktEnd' = [pPktEnd EXCEPT !.off = end1]
                                /\ UNCHANGED <<pPktStart, pNumBytesInBuffer>>
    /\ UNCHANGED <<devVars, TX_CAP, isDmaTxComplete, currentDmaBufferTx, linkVars, errorHandler, app>>

----------------------------------------------------------------------------
(* HDC_Flush and HDC_Work *)

\* HDC_Flush: start transmitting what is pending, then wait for the transmit
HDC_Flush ==
    /\ Idle
    /\ pPktStart = NullPtr
    /\ calls' = <<PendingCall, FlushWaitCall>>
    /\ UNCHANGED <<devVars, TX_CAP, txVars, streamVars, pc, pos, linkVars, errorHandler, pkts, msgs, app>>

\* The wait loop of HDC_Flush ends because the transmit completed
HDC_Flush_Complete ==
    /\ Running("flushwait")
    /\ isDmaTxComplete
    /\ calls' = Tail(calls)
    /\ UNCHANGED <<devVars, TX_CAP, txVars, streamVars, pc, pos, linkVars, errorHandler, pkts, msgs, app>>

\* The wait loop of HDC_Flush ends because HAL_GetTick() passed the timeout
HDC_Flush_Timeout ==
    /\ Running("flushwait")
    /\ ~isDmaTxComplete
    /\ calls' = Tail(calls)
    /\ UNCHANGED <<devVars, TX_CAP, txVars, streamVars, pc, pos, linkVars, errorHandler, pkts, msgs, app>>

\* HDC_Work: the main loop's call into the driver
HDC_Work ==
    /\ Idle
    /\ pPktStart = NullPtr
    /\ calls' = (IF isDmaRxComplete THEN <<RxCall>> ELSE <<>>) \o <<WorkTxCall>>
    /\ UNCHANGED <<devVars, TX_CAP, txVars, streamVars, pc, pos, linkVars, errorHandler, pkts, msgs, app>>

\* Mutant of HDC_Work_Tx: HDC_Work returns without starting a transmit
HDC_Work_TxOfNothing ==
    /\ Running("worktx")
    /\ calls' = Tail(calls)
    /\ pc' = "run"
    /\ UNCHANGED <<devVars, TX_CAP, txVars, streamVars, pos, linkVars, errorHandler, pkts, msgs, app>>

\* The last statement of HDC_Work: if the transmit completed, start the next one
HDC_Work_Tx ==
    /\ Running("worktx")
    /\ IF isDmaTxComplete /\ ~HasCapacity(NumBytesInBufferTx, TX_CAP)
         THEN calls' = calls /\ pc' = "wait"
         ELSE calls' = Tail(calls) /\ pc' = "run"
    /\ UNCHANGED <<devVars, TX_CAP, txVars, streamVars, pos, linkVars, errorHandler, pkts, msgs, app>>

----------------------------------------------------------------------------
(* Reception: the link, HDC_RxEventCallback and HDC_ParsePacket *)

\* The RX DMA, circular over BufferRx, has written the burst d from offset p
DmaWrite(buf, p, d) ==
    [j \in DOMAIN buf |->
        LET i == ((j - p) % HDC_BUFFER_SIZE_RX) + 1
        IN IF i <= Len(d) THEN d[i] ELSE buf[j]]

\* Mutant of HDC_RxEventCallback: the position 0 of the DMA is taken as the
\* number of bytes received
HDC_RxEventCallbackOfSize(d) ==
    LET Size == (rxPos + Len(d)) % HDC_BUFFER_SIZE_RX
    IN /\ BufferRx' = DmaWrite(BufferRx, rxPos, d)
       /\ rxPos' = Size
       /\ NumBytesInBufferRx' = Size
       /\ isDmaRxComplete' = TRUE

\* Interrupt handler called from HAL_UARTEx_RxEventCallback with the DMA's
\* position Size, after the burst d has been written into BufferRx
HDC_RxEventCallback(d) ==
    LET Size == (rxPos + Len(d)) % HDC_BUFFER_SIZE_RX
    IN /\ BufferRx' = DmaWrite(BufferRx, rxPos, d)
       /\ rxPos' = Size
       /\ NumBytesInBufferRx' = (IF Size = 0 THEN HDC_BUFFER_SIZE_RX ELSE Size)
       /\ isDmaRxComplete' = TRUE

\* Mutant of FramerStep: a candidate that reaches beyond the chunk is not
\* left for later
FramerStepBeyondChunk(buf, N, i) ==
    LET payload_size == buf[i]
        terminatorIndex == payload_size + 2
    IN IF payload_size > HDC_MAX_REQ_MESSAGE_SIZE THEN "skip"
       ELSE IF /\ buf[i + terminatorIndex] = HDC_PACKET_TERMINATOR
               /\ SumBytes(Slice(buf, i + 1, terminatorIndex - 1)) = 0
         THEN "packet"
         ELSE "skip"

\* Mutant of FramerStep: a payload size beyond HDC_MAX_REQ_MESSAGE_SIZE is
\* waited for like any other
FramerStepAnySize(buf, N, i) ==
    LET chunk_size == N - i
        payload_size == buf[i]
        terminatorIndex == payload_size + 2
    IN IF payload_size + HDC_PACKET_OVERHEAD > chunk_size THEN "null"
       ELSE IF /\ buf[i + terminatorIndex] = HDC_PACKET_TERMINATOR
               /\ SumBytes(Slice(buf, i + 1, terminatorIndex - 1)) = 0
         THEN "packet"
         ELSE "skip"

\* What one pass of the loop of HDC_ParsePacket decides about the candidate
\* at offset i of a chunk of N bytes: "skip" (a reading-frame error, try the
\* next byte), "null" (not yet a full packet) or "packet"
FramerStep(buf, N, i) ==
    LET chunk_size == N - i
        payload_size == buf[i]
        terminatorIndex == payload_size + 2
    IN IF payload_size > HDC_MAX_REQ_MESSAGE_SIZE THEN "skip"
       ELSE IF payload_size + HDC_PACKET_OVERHEAD > chunk_size THEN "null"
       ELSE IF /\ buf[i + terminatorIndex] = HDC_PACKET_TERMINATOR
               /\ SumBytes(Slice(buf, i + 1, terminatorIndex - 1)) = 0
         THEN "packet"
         ELSE "skip"

\* The result of a parse that found nothing
NoPacket == -1

\* Mutant of HDC_ParsePacket: the bytes behind the packet are not counted
HDC_ParsePacketOfSkipped(buf, N) ==
    LET stops == {i \in 0..N : N - i < HDC_PACKET_OVERHEAD
                               \/ FramerStep(buf, N, i) # "skip"}
        i == CHOOSE x \in stops : \A y \in stops : x <= y
    IN IF N - i < HDC_PACKET_OVERHEAD \/ FramerStep(buf, N, i) = "null"
         THEN [pkt |-> NoPacket, err |-> i]
         ELSE [pkt |-> i, err |-> i]

\* HDC_ParsePacket(Buffer, BufferSize, &counter) on a zeroed counter: the
\* offset of the packet returned (NoPacket for NULL) and the counter.  The loop
\* ends at the first offset where fewer than 3 bytes are left or the candidate
\* is not skipped.
HDC_ParsePacket(buf, N) ==
    LET stops == {i \in 0..N : N - i < HDC_PACKET_OVERHEAD
                               \/ FramerStep(buf, N, i) # "skip"}
        i == CHOOSE x \in stops : \A y \in stops : x <= y
    IN IF N - i < HDC_PACKET_OVERHEAD \/ FramerStep(buf, N, i) = "null"
         THEN [pkt |-> NoPacket, err |-> i]
         ELSE [pkt |-> i, err |-> i + (N - i) - (buf[i] + HDC_PACKET_OVERHEAD)]

\* No parse has been made yet
NotParsed == [pkt |-> -2, err |-> 0]

----------------------------------------------------------------------------
(* Descriptors: feature_core.c and the mandatory tables of hdc_device.c *)

\* A descriptor field that is NULL
NULL == "NULL"

\* feature_core.c: Core_HDC_Commands
Core_HDC_Commands ==
    << [CommandID |-> 1, CommandHandler |-> "Core_HDC_Cmd_Reset"],
       [CommandID |-> 2, CommandHandler |-> "Core_HDC_Cmd_Divide"] >>

\* hdc_device.c: HDC_MandatoryCommands, the entries whose CommandID
\* hdc_device.h defines
HDC_MandatoryCommands ==
    << [CommandID |-> HDC_CommandID_GetPropertyValue,
        CommandHandler |-> "HDC_Cmd_GetPropertyValue"],
       [CommandID |-> HDC_CommandID_SetPropertyValue,
        CommandHandler |-> "HDC_Cmd_SetPropertyValue"] >>

\* feature_core.c: Core_HDC_Properties
Core_HDC_Properties ==
    << [PropertyID |-> 16, PropertyDataType |-> HDC_DataTypeID_UINT32,
        PropertyIsReadonly |-> TRUE, GetPropertyValue |-> "Core_HDC_Property_uC_DEVID_get",
        SetPropertyValue |-> NULL, pValue |-> NULL, ValueSize |-> 0],
       [PropertyID |-> 17, PropertyDataType |-> HDC_DataTypeID_BLOB,
        PropertyIsReadonly |-> TRUE, GetPropertyValue |-> NULL,
        SetPropertyValue |-> NULL, pValue |-> "UID_BASE", ValueSize |-> 12],
       [PropertyID |-> 18, PropertyDataType |-> HDC_DataTypeID_UINT8,
        PropertyIsReadonly |-> FALSE, GetPropertyValue |-> NULL,
        SetPropertyValue |-> NULL, pValue |-> "led_blinking_rate", ValueSize |-> 0] >>

\* hdc_device.c: HDC_MandatoryProperties, three of its ten entries:
\* AvailableProperties and the two whose PropertyID hdc_device.h defines
HDC_MandatoryProperties ==
    << [PropertyID |-> HDC_PropertyID_AvailableProperties,
        PropertyDataType |-> HDC_DataTypeID_BLOB,
        PropertyIsReadonly |-> TRUE, GetPropertyValue |-> "HDC_Property_AvailableProperties_get",
        SetPropertyValue |-> NULL, pValue |-> NULL, ValueSize |-> 0],
       [PropertyID |-> HDC_PropertyID_FeatureState, PropertyDataType |-> HDC_DataTypeID_UINT8,
        PropertyIsReadonly |-> TRUE, GetPropertyValue |-> "HDC_Property_FeatureState_get",
        SetPropertyValue |-> NULL, pValue |-> NULL, ValueSize |-> 0],
       [PropertyID |-> HDC_PropertyID_LogEventThreshold,
        PropertyDataType |-> HDC_DataTypeID_UINT8,
        PropertyIsReadonly |-> FALSE, GetPropertyValue |-> "HDC_Property_LogEventThreshold_get",
        SetPropertyValue |-> "HDC_Property_LogEventThreshold_set",
        pValue |-> NULL, ValueSize |-> 0] >>

\* hdc_device.c: HDC_MandatoryPropertiesOfCoreFeature
HDC_MandatoryPropertiesOfCoreFeature ==
    << [PropertyID |-> HDC_PropertyID_AvailableFeatures,
        PropertyDataType |-> HDC_DataTypeID_BLOB,
        PropertyIsReadonly |-> TRUE, GetPropertyValue |-> "HDC_Property_AvailableFeatures_get",
        SetPropertyValue |-> NULL, pValue |-> NULL, ValueSize |-> 0],
       [PropertyID |-> HDC_PropertyID_MaxReqMsgSize,
        PropertyDataType |-> HDC_DataTypeID_UINT32,
        PropertyIsReadonly |-> TRUE, GetPropertyValue |-> NULL,
        SetPropertyValue |-> NULL, pValue |-> "HDC_MAX_REQ_MESSAGE_SIZE",
        ValueSize |-> 0] >>

\* feature_core.c: Core_HDC_Feature
Core_HDC_Feature ==
    [FeatureID |-> HDC_FeatureID_Core,
     Commands |-> Core_HDC_Commands,
     Properties |-> Core_HDC_Properties]

\* feature_core.c: Core_HDC_Features, what Core_Init passes to HDC_Init
Core_HDC_Features == <<Core_HDC_Feature>>

\* Property descriptors of an application with writable properties of a
\* variable-size and of a two-byte data type, and a read-only string
TypedProperties ==
    << [PropertyID |-> 32, PropertyDataType |-> HDC_DataTypeID_UTF8,
        PropertyIsReadonly |-> FALSE, GetPropertyValue |-> NULL,
        SetPropertyValue |-> NULL, pValue |-> "text", ValueSize |-> 4],
       [PropertyID |-> 33, PropertyDataType |-> HDC_DataTypeID_BLOB,
        PropertyIsReadonly |-> FALSE, GetPropertyValue |-> NULL,
        SetPropertyValue |-> NULL, pValue |-> "blob", ValueSize |-> 3],
       [PropertyID |-> 34, PropertyDataType |-> HDC_DataTypeID_UINT16,
        PropertyIsReadonly |-> FALSE, GetPropertyValue |-> NULL,
        SetPropertyValue |-> NULL, pValue |-> "u16", ValueSize |-> 0],
       [PropertyID |-> 35, PropertyDataType |-> HDC_DataTypeID_UTF8,
        PropertyIsReadonly |-> TRUE, GetPropertyValue |-> NULL,
        SetPropertyValue |-> NULL, pValue |-> "name", ValueSize |-> 4] >>

\* The core feature of that application: the demo's, with TypedProperties
Typed_HDC_Feature ==
    [FeatureID |-> HDC_FeatureID_Core,
     Commands |-> Core_HDC_Commands,
     Properties |-> Core_HDC_Properties \o TypedProperties]

\* What that application passes to HDC_Init
Typed_HDC_Features == <<Typed_HDC_Feature>>

\* The variables behind TypedProperties as the application initializes them
TypedMemory ==
    [text |-> <<104, 105, 0, 0>>, blob |-> <<1, 2, 3>>, u16 |-> <<52, 18>>,
     name |-> <<72, 68, 67, 0>>, routed |-> <<>>]

\* No descriptor found
NoDescriptor == [none |-> TRUE]

\* The first descriptor of table t whose field id is v, as the loops find it
Lookup(t, id, v) ==
    IF \E i \in 1..Len(t) : t[i][id] = v
      THEN t[CHOOSE i \in 1..Len(t) : t[i][id] = v /\ \A j \in 1..(i - 1) : t[j][id] # v]
      ELSE NoDescriptor

\* HDC_GetFeature: the index into Features of the feature, 0 for NULL
HDC_GetFeature(featureID) ==
    IF \E i \in 1..Len(Features) : Features[i].FeatureID = featureID
      THEN CHOOSE i \in 1..Len(Features) :
             /\ Features[i].FeatureID = featureID
             /\ \A j \in 1..(i - 1) : Features[j].FeatureID # featureID
      ELSE 0

\* HDC_GetCommand: the feature's commands, then the mandatory ones
HDC_GetCommand(fi, commandID) ==
    Lookup(Features[fi].Commands \o HDC_MandatoryCommands, "CommandID", commandID)

\* HDC_GetProperty: the feature's properties, then the mandatory ones, then,
\* for the feature with the ID of the core feature, those of the core feature
HDC_GetProperty(fi, propertyID) ==
    Lookup(Features[fi].Properties \o HDC_MandatoryProperties
           \o (IF Features[fi].FeatureID = HDC_FeatureID_Core
                 THEN HDC_MandatoryPropertiesOfCoreFeature ELSE <<>>),
           "PropertyID", propertyID)

\* The 96 bit unique ID of the microcontroller at UID_BASE
UID == <<17, 34, 51, 68, 85, 102, 119, 136, 153, 170, 187, 204>>

\* HAL_GetDEVID() of the STM32F303xE (0x446), little-endian
DEVID == <<70, 4, 0, 0>>

\* The bytes at the address pValue, st being the values of the variables
Deref(pValue, st) ==
    IF pValue = "UID_BASE" THEN UID
    ELSE IF pValue = "led_blinking_rate" THEN <<st.led>>
    ELSE IF pValue = "HDC_MAX_REQ_MESSAGE_SIZE" THEN <<HDC_MAX_REQ_MESSAGE_SIZE, 0, 0, 0>>
    ELSE st.mem[pValue]

----------------------------------------------------------------------------
(* Messages composed in one call *)

\* HDC_Compose_Packets_From_Buffer(pData, DataSize)
HDC_Compose_Packets_From_Buffer(data) ==
    <<BeginCall, StreamCall(data, Len(data)), EndCall>>

\* HDC_Compose_Message_From_Pieces
HDC_Compose_Message_From_Pieces(MsgType, FeatureID, CmdOrEvtID, CommandErrorCode, prefix, suffix) ==
    <<BeginCall, DataCall(<<MsgType>>), DataCall(<<FeatureID>>), DataCall(<<CmdOrEvtID>>)>>
    \o (IF MsgType = HDC_MessageTypeID_Command
          THEN <<DataCall(<<CommandErrorCode>>)>> ELSE <<>>)
    \o (IF Len(prefix) > 0 THEN <<DataCall(prefix)>> ELSE <<>>)
    \o (IF Len(suffix) > 0 THEN <<DataCall(suffix)>> ELSE <<>>)
    \o <<EndCall>>

\* Mutant of HDC_CmdReply_From_Pieces: the reply names the core feature
\* whatever feature the request named
HDC_CmdReply_From_PiecesOfCore(CommandErrorCode, prefix, req) ==
    HDC_Compose_Message_From_Pieces(HDC_MessageTypeID_Command, HDC_FeatureID_Core, req[3],
                                    CommandErrorCode, prefix, <<>>)

\* HDC_CmdReply_From_Pieces with FeatureID and CommandID inferred from the
\* request header, as all its callers do
HDC_CmdReply_From_Pieces(CommandErrorCode, prefix, req) ==
    HDC_Compose_Message_From_Pieces(HDC_MessageTypeID_Command, req[2], req[3],
                                    CommandErrorCode, prefix, <<>>)

\* HDC_CmdReply_Error
HDC_CmdReply_Error(CommandErrorCode, req) ==
    HDC_CmdReply_From_Pieces(CommandErrorCode, <<>>, req)

\* HDC_CmdReply_Void
HDC_CmdReply_Void(req) == HDC_CmdReply_Error(HDC_CommandErrorCode_NO_ERROR, req)

\* HDC_CmdReply_BlobValue
HDC_CmdReply_BlobValue(blob, req) ==
    HDC_CmdReply_From_Pieces(HDC_CommandErrorCode_NO_ERROR, blob, req)

\* strlen: the bytes of s before its first zero byte
Strlen(s) ==
    IF \E i \in 1..Len(s) : s[i] = 0
      THEN (CHOOSE i \in 1..Len(s) : s[i] = 0 /\ \A j \in 1..(i - 1) : s[j] # 0) - 1
      ELSE Len(s)

\* HDC_CmdReply_StringValue
HDC_CmdReply_StringValue(value, req) ==
    HDC_CmdReply_BlobValue(SubSeq(value, 1, Strlen(value)), req)

\* HDC_EvtMsg; fi = 0 stands for a NULL feature
HDC_EvtMsg(fi, EventID, prefix, suffix) ==
    LET hHDC_Feature == IF fi = 0 THEN Features[1] ELSE Features[fi]
    IN HDC_Compose_Message_From_Pieces(HDC_MessageTypeID_Event, hHDC_Feature.FeatureID,
                                       EventID, HDC_CommandErrorCode_NO_ERROR,
                                       prefix, suffix)

\* Mutant of HDC_EvtMsg_Log: a log at the threshold is dropped too
HDC_EvtMsg_LogAbove(fi, logLevel, logText, thr) ==
    LET i == IF fi = 0 THEN 1 ELSE fi
    IN IF logLevel <= thr[i]
         THEN <<>>
         ELSE HDC_EvtMsg(i, HDC_EventID_Log, <<logLevel>>,
                         SubSeq(logText, 1, Strlen(logText)))

\* HDC_EvtMsg_Log with the thresholds thr; fi = 0 stands for a NULL feature
HDC_EvtMsg_Log(fi, logLevel, logText, thr) ==
    LET i == IF fi = 0 THEN 1 ELSE fi
    IN IF logLevel < thr[i]
         THEN <<>>
         ELSE HDC_EvtMsg(i, HDC_EventID_Log, <<logLevel>>,
                         SubSeq(logText, 1, Strlen(logText)))

----------------------------------------------------------------------------
(* Command handlers.  A request is given as req, the bytes of BufferRx from *)
(* pRequestMessage on (req[j + 1] is pRequestMessage[j]), and its Size;     *)
(* st holds the values of the variables a handler may write.               *)

\* What a handler leaves behind: the calls it makes, the values of the
\* variables, and whether it ended in Error_Handler()
Outcome(c, st) ==
    [calls |-> c, led |-> st.led, thr |-> st.thr, mem |-> st.mem, err |-> FALSE]

\* Error_Handler()
Failed(st) ==
    [calls |-> <<>>, led |-> st.led, thr |-> st.thr, mem |-> st.mem, err |-> TRUE]

\* The number of bytes the typed replies of HDC_Cmd_GetPropertyValue send
TypedReplySize(dtype) ==
    CASE dtype \in {HDC_DataTypeID_BOOL, HDC_DataTypeID_UINT8, HDC_DataTypeID_INT8} -> 1
      [] dtype \in {HDC_DataTypeID_UINT16, HDC_DataTypeID_INT16} -> 2
      [] dtype \in {HDC_DataTypeID_UINT32, HDC_DataTypeID_INT32, HDC_DataTypeID_FLOAT} -> 4
      [] dtype = HDC_DataTypeID_DOUBLE -> 8
      [] OTHER -> 0

\* HDC_Property_AvailableFeatures_get
HDC_Property_AvailableFeatures_get(fi, req, st) ==
    Outcome(HDC_CmdReply_BlobValue([i \in 1..Len(Features) |-> Features[i].FeatureID], req),
            st)

\* HDC_Property_AvailableProperties_get: the IDs of the feature's properties,
\* of the mandatory ones and, for the feature with the ID of the core
\* feature, of those of the core feature
HDC_Property_AvailableProperties_get(fi, req, st) ==
    LET ds == Features[fi].Properties \o HDC_MandatoryProperties
              \o (IF Features[fi].FeatureID = HDC_FeatureID_Core
                    THEN HDC_MandatoryPropertiesOfCoreFeature ELSE <<>>)
        availableProperties == [i \in 1..Len(ds) |-> ds[i].PropertyID]
    IN Outcome(HDC_CmdReply_BlobValue(availableProperties, req), st)

\* The getters of the property descriptors
PropertyGetter(name, fi, req, st) ==
    CASE name = "Core_HDC_Property_uC_DEVID_get" ->
           Outcome(HDC_CmdReply_BlobValue(DEVID, req), st)
      [] name = "HDC_Property_AvailableProperties_get" ->
           HDC_Property_AvailableProperties_get(fi, req, st)
      [] name = "HDC_Property_AvailableFeatures_get" ->
           HDC_Property_AvailableFeatures_get(fi, req, st)
      [] name = "HDC_Property_FeatureState_get" ->
           Outcome(HDC_CmdReply_BlobValue(<<FeatureState[fi]>>, req), st)
      [] name = "HDC_Property_LogEventThreshold_get" ->
           Outcome(HDC_CmdReply_BlobValue(<<st.thr[fi]>>, req), st)

\* Mutant of CONSTRAIN: the upper limit is not applied
CONSTRAINFromBelow(x, lower, upper) == IF x < lower THEN lower ELSE x

\* CONSTRAIN(x, lower, upper)
CONSTRAIN(x, lower, upper) == IF x < lower THEN lower ELSE IF x > upper THEN upper ELSE x

\* Mutant of HDC_Property_LogEventThreshold_set: the reply carries the value
\* of the request, not the value stored
HDC_Property_LogEventThreshold_setEcho(fi, req, st) ==
    LET constrained == CONSTRAIN(req[5], HDC_EventLogLevel_DEBUG, HDC_EventLogLevel_CRITICAL)
        newValue == (((constrained + 5) \div 10) * 10) % 256
        st2 == [st EXCEPT !.thr[fi] = newValue]
    IN Outcome(HDC_CmdReply_BlobValue(<<req[5]>>, req), st2)

\* HDC_Property_LogEventThreshold_set
HDC_Property_LogEventThreshold_set(fi, req, st) ==
    LET constrained == CONSTRAIN(req[5], HDC_EventLogLevel_DEBUG, HDC_EventLogLevel_CRITICAL)
        newValue == (((constrained + 5) \div 10) * 10) % 256
        st2 == [st EXCEPT !.thr[fi] = newValue]
    IN Outcome(HDC_CmdReply_BlobValue(<<newValue>>, req), st2)

\* The setters of the property descriptors
PropertySetter(name, fi, req, st) ==
    CASE name = "HDC_Property_LogEventThreshold_set" ->
           HDC_Property_LogEventThreshold_set(fi, req, st)

\* HDC_Cmd_GetPropertyValue
HDC_Cmd_GetPropertyValue(req, Size, st) ==
    IF req[3] = HDC_CommandID_GetPropertyValue /\ Size # 4
      THEN Outcome(HDC_CmdReply_Error(HDC_CommandErrorCode_INCORRECT_COMMAND_ARGUMENTS, req), st)
    ELSE LET fi == HDC_GetFeature(req[2])
         IN IF fi = 0
              THEN Outcome(HDC_CmdReply_Error(HDC_CommandErrorCode_UNKNOWN_FEATURE, req), st)
            ELSE LET property == HDC_GetProperty(fi, req[4])
                 IN IF property = NoDescriptor
                      THEN Outcome(HDC_CmdReply_Error(HDC_CommandErrorCode_UNKNOWN_PROPERTY,
                                                      req), st)
                    ELSE IF property.GetPropertyValue # NULL
                      THEN PropertyGetter(property.GetPropertyValue, fi, req, st)
                    ELSE IF property.pValue = NULL
                      THEN Failed(st)
                    ELSE IF TypedReplySize(property.PropertyDataType) > 0
                      THEN Outcome(HDC_CmdReply_BlobValue(
                                     SubSeq(Deref(property.pValue, st), 1,
                                            TypedReplySize(property.PropertyDataType)),
                                     req), st)
                    ELSE IF property.PropertyDataType = HDC_DataTypeID_UTF8
                      THEN Outcome(HDC_CmdReply_StringValue(Deref(property.pValue, st), req),
                                   st)
                    ELSE IF property.PropertyDataType = HDC_DataTypeID_BLOB
                      THEN IF property.ValueSize = 0
                             THEN Failed(st)
                             ELSE Outcome(HDC_CmdReply_BlobValue(
                                            SubSeq(Deref(property.pValue, st), 1,
                                                   property.ValueSize), req), st)
                    ELSE Failed(st)

\* Mutant of StoreValue: the zero-terminator of a string is left out
StoreValueUnterminated(property, bytes, st) ==
    IF property.pValue = "UID_BASE" THEN st
    ELSE IF property.pValue = "led_blinking_rate"
      THEN IF Len(bytes) > 0 THEN [st EXCEPT !.led = bytes[1]] ELSE st
    ELSE LET old == st.mem[property.pValue]
         IN [st EXCEPT !.mem[property.pValue] =
                [j \in 1..Len(old) |-> IF j <= Len(bytes) THEN bytes[j] ELSE old[j]]]

\* memcpy(property->pValue, pNewValueAsRawBytes, n) and the zero-terminator
\* of a string
StoreValue(property, bytes, st) ==
    IF property.pValue = "UID_BASE" THEN st
    ELSE IF property.pValue = "led_blinking_rate"
      THEN IF Len(bytes) > 0 THEN [st EXCEPT !.led = bytes[1]] ELSE st
    ELSE LET old == st.mem[property.pValue]
             n == Len(bytes)
             terminated == property.PropertyDataType = HDC_DataTypeID_UTF8
             new == [j \in 1..Len(old) |->
                       IF j <= n THEN bytes[j]
                       ELSE IF terminated /\ j = n + 1 THEN 0
                       ELSE old[j]]
         IN [st EXCEPT !.mem[property.pValue] = new]

\* Mutant of ValueSizeRejected: a value as long as the declared size of a
\* variable-size property passes
ValueSizeRejectedBeyond(property, receivedValueSize) ==
    LET lowerNibble == property.PropertyDataType % 16
        expectedValueSize == IF lowerNibble = 0 THEN 1 ELSE lowerNibble
    IN \/ lowerNibble = 15 /\ receivedValueSize > property.ValueSize
       \/ lowerNibble # 15 /\ receivedValueSize # expectedValueSize

\* The size validation of HDC_Cmd_SetPropertyValue: the received value has
\* not the size the data type of the property allows
ValueSizeRejected(property, receivedValueSize) ==
    LET lowerNibble == property.PropertyDataType % 16
        expectedValueSize == IF lowerNibble = 0 THEN 1 ELSE lowerNibble
    IN \/ lowerNibble = 15 /\ receivedValueSize >= property.ValueSize
       \/ lowerNibble # 15 /\ receivedValueSize # expectedValueSize

\* Mutant of HDC_Cmd_SetPropertyValue: a read-only property is written like
\* a writable one
HDC_Cmd_SetPropertyValueOfAny(req, Size, st) ==
    LET fi == HDC_GetFeature(req[2])
    IN IF fi = 0
         THEN Outcome(HDC_CmdReply_Error(HDC_CommandErrorCode_UNKNOWN_FEATURE, req), st)
       ELSE LET property == HDC_GetProperty(fi, req[4])
                receivedValueSize == (Size - 4) % 256
            IN IF property = NoDescriptor
                 THEN Outcome(HDC_CmdReply_Error(HDC_CommandErrorCode_UNKNOWN_PROPERTY, req),
                              st)
               ELSE LET lowerNibble == property.PropertyDataType % 16
                        expectedValueSize == IF lowerNibble = 0 THEN 1 ELSE lowerNibble
                    IN IF lowerNibble = 15 /\ property.ValueSize = 0
                         THEN Failed(st)
                       ELSE IF \/ lowerNibble = 15 /\ receivedValueSize >= property.ValueSize
                               \/ lowerNibble # 15 /\ receivedValueSize # expectedValueSize
                         THEN Outcome(HDC_CmdReply_Error(
                                        HDC_CommandErrorCode_INVALID_PROPERTY_VALUE, req), st)
                       ELSE IF property.SetPropertyValue # NULL
                         THEN PropertySetter(property.SetPropertyValue, fi, req, st)
                       ELSE IF property.pValue = NULL
                         THEN Failed(st)
                       ELSE HDC_Cmd_GetPropertyValue(
                              req, Size,
                              StoreValue(property, SubSeq(req, 5, 4 + receivedValueSize), st))

\* Mutant of HDC_Cmd_SetPropertyValue: the size of the value is validated
\* before the property is looked at for being read-only
HDC_Cmd_SetPropertyValueSizeFirst(req, Size, st) ==
    LET fi == HDC_GetFeature(req[2])
    IN IF fi = 0
         THEN Outcome(HDC_CmdReply_Error(HDC_CommandErrorCode_UNKNOWN_FEATURE, req), st)
       ELSE LET property == HDC_GetProperty(fi, req[4])
                receivedValueSize == (Size - 4) % 256
            IN IF property = NoDescriptor
                 THEN Outcome(HDC_CmdReply_Error(HDC_CommandErrorCode_UNKNOWN_PROPERTY, req),
                              st)
               ELSE LET lowerNibble == property.PropertyDataType % 16
                    IN IF lowerNibble = 15 /\ property.ValueSize = 0
                         THEN Failed(st)
                       ELSE IF ValueSizeRejected(property, receivedValueSize)
                         THEN Outcome(HDC_CmdReply_Error(
                                        HDC_CommandErrorCode_INVALID_PROPERTY_VALUE, req), st)
                       ELSE IF property.PropertyIsReadonly
                         THEN Outcome(HDC_CmdReply_Error(
                                        HDC_CommandErrorCode_PROPERTY_IS_READONLY, req), st)
                       ELSE IF property.SetPropertyValue # NULL
                         THEN PropertySetter(property.SetPropertyValue, fi, req, st)
                       ELSE IF property.pValue = NULL
                         THEN Failed(st)
                       ELSE HDC_Cmd_GetPropertyValue(
                              req, Size,
                              StoreValue(property, SubSeq(req, 5, 4 + receivedValueSize), st))

\* HDC_Cmd_SetPropertyValue
HDC_Cmd_SetPropertyValue(req, Size, st) ==
    LET fi == HDC_GetFeature(req[2])
    IN IF fi = 0
         THEN Outcome(HDC_CmdReply_Error(HDC_CommandErrorCode_UNKNOWN_FEATURE, req), st)
       ELSE LET property == HDC_GetProperty(fi, req[4])
                receivedValueSize == (Size - 4) % 256
            IN IF property = NoDescriptor
                 THEN Outcome(HDC_CmdReply_Error(HDC_CommandErrorCode_UNKNOWN_PROPERTY, req),
                              st)
               ELSE IF property.PropertyIsReadonly
                 THEN Outcome(HDC_CmdReply_Error(HDC_CommandErrorCode_PROPERTY_IS_READONLY,
                                                 req), st)
               ELSE LET lowerNibble == property.PropertyDataType % 16
                    IN IF lowerNibble = 15 /\ property.ValueSize = 0
                         THEN Failed(st)
                       ELSE IF ValueSizeRejected(property, receivedValueSize)
                         THEN Outcome(HDC_CmdReply_Error(
                                        HDC_CommandErrorCode_INVALID_PROPERTY_VALUE, req), st)
                       ELSE IF property.SetPropertyValue # NULL
                         THEN PropertySetter(property.SetPropertyValue, fi, req, st)
                       ELSE IF property.pValue = NULL
                         THEN Failed(st)
                       ELSE HDC_Cmd_GetPropertyValue(
                              req, Size,
                              StoreValue(property, SubSeq(req, 5, 4 + receivedValueSize), st))

\* feature_core.c: Core_HDC_Cmd_Reset
Core_HDC_Cmd_Reset(req, Size, st) ==
    IF Size # 3
      THEN Outcome(HDC_CmdReply_Error(HDC_Descriptor_Exc_InvalidArgs, req), st)
      ELSE Outcome(HDC_CmdReply_Void(req)
                   \o <<TransitionCall(1, Core_State_Off), PendingCall, FlushWaitCall,
                        ResetCall>>, st)

\* The float 0.0f or -0.0f, little-endian
IsFloatZero(b) == b = <<0, 0, 0, 0>> \/ b = <<0, 0, 0, 128>>

\* numerator / denominator as a double, little-endian, for the floats the
\* requests of the model use: 1.0f / 2.0f = 0.5
FloatQuotient(numerator, denominator) ==
    CASE numerator = <<0, 0, 128, 63>> /\ denominator = <<0, 0, 0, 64>> ->
           <<0, 0, 0, 0, 0, 0, 224, 63>>

\* feature_core.c: Core_HDC_Cmd_Divide
Core_HDC_Cmd_Divide(req, Size, st) ==
    IF Size # 11
      THEN Outcome(HDC_CmdReply_Error(HDC_Descriptor_Exc_InvalidArgs, req), st)
    ELSE IF IsFloatZero(SubSeq(req, 8, 11))
      THEN Outcome(HDC_CmdReply_Error(Core_HDC_Exc_DivZero, req), st)
    ELSE Outcome(HDC_CmdReply_BlobValue(
                   FloatQuotient(SubSeq(req, 4, 7), SubSeq(req, 8, 11)), req), st)

\* command->CommandHandler(feature, pRequestMessage, Size)
CommandHandler(name, req, Size, st) ==
    CASE name = "HDC_Cmd_GetPropertyValue" -> HDC_Cmd_GetPropertyValue(req, Size, st)
      [] name = "HDC_Cmd_SetPropertyValue" -> HDC_Cmd_SetPropertyValue(req, Size, st)
      [] name = "Core_HDC_Cmd_Reset" -> Core_HDC_Cmd_Reset(req, Size, st)
      [] name = "Core_HDC_Cmd_Divide" -> Core_HDC_Cmd_Divide(req, Size, st)

\* Mutant of HDC_MsgReply_Echo: the reply leaves out the message type
HDC_MsgReply_EchoOfTail(req, Size, st) ==
    Outcome(HDC_Compose_Packets_From_Buffer(SubSeq(req, 2, Size)), st)

\* HDC_MsgReply_Echo
HDC_MsgReply_Echo(req, Size, st) ==
    Outcome(HDC_Compose_Packets_From_Buffer(SubSeq(req, 1, Size)), st)

\* Mutant of HDC_MsgReply_Command: a request for a feature that is not
\* registered goes to the core feature
HDC_MsgReply_CommandOfCore(req, Size, st) ==
    LET fi == IF HDC_GetFeature(req[2]) = 0 THEN 1 ELSE HDC_GetFeature(req[2])
        command == HDC_GetCommand(fi, req[3])
    IN IF command = NoDescriptor
         THEN Outcome(HDC_CmdReply_Error(HDC_CommandErrorCode_UNKNOWN_COMMAND, req), st)
         ELSE CommandHandler(command.CommandHandler, req, Size, st)

\* HDC_MsgReply_Command
HDC_MsgReply_Command(req, Size, st) ==
    LET fi == HDC_GetFeature(req[2])
    IN IF fi = 0
         THEN Outcome(HDC_CmdReply_Error(HDC_CommandErrorCode_UNKNOWN_FEATURE, req), st)
       ELSE LET command == HDC_GetCommand(fi, req[3])
            IN IF command = NoDescriptor
                 THEN Outcome(HDC_CmdReply_Error(HDC_CommandErrorCode_UNKNOWN_COMMAND, req),
                              st)
                 ELSE CommandHandler(command.CommandHandler, req, Size, st)

----------------------------------------------------------------------------
(* The description of the device in JSON.  Each function is the sequence   *)
(* of the calls of HDC_Compose_Packets_From_Stream it makes.  Of a         *)
(* descriptor the attributes are composed that the descriptors above       *)
(* carry: the texts (name, doc, tags, states) and the events are left out. *)

\* hdc_device.h: HDC_VERSION_STRING "HDC 1.0.0-alpha.12"
HDC_VERSION_STRING ==
    <<72, 68, 67, 32, 49, 46, 48, 46, 48, 45, 97, 108, 112, 104, 97, 46, 49, 50>>

\* "version"
Text_version ==
    <<118, 101, 114, 115, 105, 111, 110>>

\* "MaxReq"
Text_MaxReq ==
    <<77, 97, 120, 82, 101, 113>>

\* "features"
Text_features ==
    <<102, 101, 97, 116, 117, 114, 101, 115>>

\* "id"
Text_id ==
    <<105, 100>>

\* "type"
Text_type ==
    <<116, 121, 112, 101>>

\* "revision"
Text_revision ==
    <<114, 101, 118, 105, 115, 105, 111, 110>>

\* "size"
Text_size ==
    <<115, 105, 122, 101>>

\* "commands"
Text_commands ==
    <<99, 111, 109, 109, 97, 110, 100, 115>>

\* "properties"
Text_properties ==
    <<112, 114, 111, 112, 101, 114, 116, 105, 101, 115>>

\* "true"
Text_true ==
    <<116, 114, 117, 101>>

\* "false"
Text_false ==
    <<102, 97, 108, 115, 101>>

HDC_JSON_Object_start == <<DataCall(<<123>>)>>

HDC_JSON_Object_end == <<DataCall(<<125>>)>>

HDC_JSON_Array_start == <<DataCall(<<91>>)>>

HDC_JSON_Array_end == <<DataCall(<<93>>)>>

HDC_JSON_Colon == <<DataCall(<<58>>)>>

HDC_JSON_Comma == <<DataCall(<<44>>)>>

\* HDC_JSON_Quoted
HDC_JSON_Quoted(value) == <<DataCall(<<34>>), DataCall(value), DataCall(<<34>>)>>

\* sprintf(str, "%d", integer)
RECURSIVE Decimal(_)
Decimal(n) == IF n < 10 THEN <<48 + n>> ELSE Decimal(n \div 10) \o <<48 + (n % 10)>>

\* HDC_JSON_Integer
HDC_JSON_Integer(integer) == <<DataCall(Decimal(integer % 65536))>>

\* HDC_JSON_Key
HDC_JSON_Key(key) == HDC_JSON_Quoted(key) \o HDC_JSON_Colon

\* HDC_JSON_Attr_str
HDC_JSON_Attr_str(key, value) ==
    HDC_JSON_Quoted(key) \o HDC_JSON_Colon \o HDC_JSON_Quoted(value)

\* HDC_JSON_Attr_int
HDC_JSON_Attr_int(key, value) ==
    HDC_JSON_Quoted(key) \o HDC_JSON_Colon \o HDC_JSON_Integer(value)

\* HDC_JSON_Attr_bool
HDC_JSON_Attr_bool(key, value) ==
    HDC_JSON_Quoted(key) \o HDC_JSON_Colon
    \o <<DataCall(IF value THEN Text_true ELSE Text_false)>>

\* HDC_JSON_Command
HDC_JSON_Command(d) ==
    HDC_JSON_Object_start \o HDC_JSON_Attr_int(Text_id, d.CommandID) \o HDC_JSON_Object_end

\* HDC_JSON_Property
HDC_JSON_Property(d) ==
    HDC_JSON_Object_start
    \o HDC_JSON_Attr_int(Text_id, d.PropertyID)
    \o HDC_JSON_Comma
    \o HDC_JSON_Attr_int(Text_type, d.PropertyDataType)
    \o HDC_JSON_Comma
    \o HDC_JSON_Attr_bool(Text_revision, d.PropertyIsReadonly)
    \o (IF d.ValueSize > 0 /\ d.PropertyDataType \in {HDC_DataTypeID_BLOB, HDC_DataTypeID_UTF8}
          THEN HDC_JSON_Comma \o HDC_JSON_Attr_int(Text_size, d.ValueSize)
          ELSE <<>>)
    \o HDC_JSON_Object_end

\* The loops of HDC_JSON_Feature over the commands: a comma before each but
\* the first
RECURSIVE HDC_JSON_Commands(_, _)
HDC_JSON_Commands(ds, idx) ==
    IF idx > Len(ds) THEN <<>>
    ELSE (IF idx # 1 THEN HDC_JSON_Comma ELSE <<>>)
         \o HDC_JSON_Command(ds[idx]) \o HDC_JSON_Commands(ds, idx + 1)

\* The loops of HDC_JSON_Feature over the properties
RECURSIVE HDC_JSON_Properties(_, _)
HDC_JSON_Properties(ds, idx) ==
    IF idx > Len(ds) THEN <<>>
    ELSE (IF idx # 1 THEN HDC_JSON_Comma ELSE <<>>)
         \o HDC_JSON_Property(ds[idx]) \o HDC_JSON_Properties(ds, idx + 1)

\* The loop of HDC_JSON_Feature over HDC_MandatoryPropertiesOfCoreFeature: a
\* comma before each
RECURSIVE HDC_JSON_PropertiesOfCore(_)
HDC_JSON_PropertiesOfCore(idx) ==
    IF idx > Len(HDC_MandatoryPropertiesOfCoreFeature) THEN <<>>
    ELSE HDC_JSON_Comma \o HDC_JSON_Property(HDC_MandatoryPropertiesOfCoreFeature[idx])
         \o HDC_JSON_PropertiesOfCore(idx + 1)

\* HDC_JSON_Feature
HDC_JSON_Feature(d) ==
    HDC_JSON_Object_start
    \o HDC_JSON_Attr_int(Text_id, d.FeatureID)
    \o HDC_JSON_Comma
    \o HDC_JSON_Key(Text_commands)
    \o HDC_JSON_Array_start
    \o HDC_JSON_Commands(d.Commands \o HDC_MandatoryCommands, 1)
    \o HDC_JSON_Array_end
    \o HDC_JSON_Comma
    \o HDC_JSON_Key(Text_properties)
    \o HDC_JSON_Array_start
    \o HDC_JSON_Properties(d.Properties \o HDC_MandatoryProperties, 1)
    \o HDC_JSON_PropertiesOfCore(1)
    \o HDC_JSON_Array_end
    \o HDC_JSON_Object_end

\* The loop of HDC_JSON_Device over hHDC.Features
RECURSIVE HDC_JSON_Features(_)
HDC_JSON_Features(idxFeature) ==
    IF idxFeature > Len(Features) THEN <<>>
    ELSE (IF idxFeature # 1 THEN HDC_JSON_Comma ELSE <<>>)
         \o HDC_JSON_Feature(Features[idxFeature]) \o HDC_JSON_Features(idxFeature + 1)

\* HDC_JSON_Device
HDC_JSON_Device ==
    HDC_JSON_Object_start
    \o HDC_JSON_Attr_str(Text_version, HDC_VERSION_STRING)
    \o HDC_JSON_Comma
    \o HDC_JSON_Attr_int(Text_MaxReq, HDC_MAX_REQ_MESSAGE_SIZE)
    \o HDC_JSON_Comma
    \o HDC_JSON_Key(Text_features)
    \o HDC_JSON_Array_start
    \o HDC_JSON_Features(1)
    \o HDC_JSON_Array_end
    \o HDC_JSON_Object_end

\* HDC_MsgReply_Meta: whatever the request holds after its first byte, the
\* reply is the message type and the description of the device
HDC_MsgReply_Meta(req, Size, st) ==
    Outcome(<<BeginCall, DataCall(<<HDC_MessageTypeID_Meta>>)>> \o HDC_JSON_Device
            \o <<EndCall>>, st)

\* The message types the router of the application serves
RoutedTypes == {66}

\* A router an application passes to HDC_Init_WithCustomMsgRouting: it notes
\* the message type it was called with in its variable routed; a message of
\* a type it serves it answers with the message and returns true, for any
\* other it returns false.
AppRouter(req, Size, st) ==
    LET noted == [st EXCEPT !.mem.routed = Append(@, req[1])]
    IN IF req[1] \in RoutedTypes
         THEN [ok |-> TRUE,
               out |-> Outcome(HDC_Compose_Packets_From_Buffer(SubSeq(req, 1, Size)), noted)]
         ELSE [ok |-> FALSE, out |-> Outcome(<<>>, noted)]

\* Mutant of HDC_ProcessRxMessage_Other: the router is called for every
\* message type
HDC_ProcessRxMessage_OtherOfAny(req, Size, st) ==
    IF CustomMsgRouter # NULL
      THEN LET r == AppRouter(req, Size, st)
           IN IF r.ok THEN r.out
              ELSE Outcome(HDC_EvtMsg_Log(0, HDC_EventLogLevel_ERROR,
                                          Text_UnknownMessageType, st.thr), r.out)
      ELSE Outcome(HDC_EvtMsg_Log(0, HDC_EventLogLevel_ERROR, Text_UnknownMessageType, st.thr),
                   st)

\* HDC_ProcessRxMessage behind its switch: the router, if one is registered
\* and the message type is below 0xF0, and the log if it did not route
HDC_ProcessRxMessage_Other(req, Size, st) ==
    IF CustomMsgRouter # NULL /\ req[1] < 240
      THEN LET r == AppRouter(req, Size, st)
           IN IF r.ok THEN r.out
              ELSE Outcome(HDC_EvtMsg_Log(0, HDC_EventLogLevel_ERROR,
                                          Text_UnknownMessageType, st.thr), r.out)
      ELSE Outcome(HDC_EvtMsg_Log(0, HDC_EventLogLevel_ERROR, Text_UnknownMessageType, st.thr),
                   st)

\* Mutant of HDC_ProcessRxMessage: an empty message is routed by the byte
\* that follows it in the buffer
HDC_ProcessRxMessageOfEmpty(req, Size, st) ==
    IF req[1] = HDC_MessageTypeID_Echo THEN HDC_MsgReply_Echo(req, Size, st)
    ELSE IF req[1] = HDC_MessageTypeID_Command
      THEN IF Size < 3
             THEN Outcome(HDC_EvtMsg_Log(0, HDC_EventLogLevel_ERROR,
                                         Text_MalformedCommandRequest, st.thr), st)
             ELSE HDC_MsgReply_Command(req, Size, st)
    ELSE IF req[1] = HDC_MessageTypeID_Meta THEN HDC_MsgReply_Meta(req, Size, st)
    ELSE HDC_ProcessRxMessage_Other(req, Size, st)

\* Mutant of HDC_ProcessRxMessage: a Command request of fewer than 3 bytes
\* is handed to HDC_MsgReply_Command
HDC_ProcessRxMessageOfShort(req, Size, st) ==
    IF Size = 0 THEN Outcome(<<>>, st)
    ELSE IF req[1] = HDC_MessageTypeID_Echo THEN HDC_MsgReply_Echo(req, Size, st)
    ELSE IF req[1] = HDC_MessageTypeID_Command THEN HDC_MsgReply_Command(req, Size, st)
    ELSE IF req[1] = HDC_MessageTypeID_Meta THEN HDC_MsgReply_Meta(req, Size, st)
    ELSE HDC_ProcessRxMessage_Other(req, Size, st)

\* HDC_ProcessRxMessage.  The case HDC_MessageTypeID_HdcVersion is left out:
\* hdc_device.h defines no message type of that name.
HDC_ProcessRxMessage(req, Size, st) ==
    IF Size = 0 THEN Outcome(<<>>, st)
    ELSE IF req[1] = HDC_MessageTypeID_Echo THEN HDC_MsgReply_Echo(req, Size, st)
    ELSE IF req[1] = HDC_MessageTypeID_Command
      THEN IF Size < 3
             THEN Outcome(HDC_EvtMsg_Log(0, HDC_EventLogLevel_ERROR,
                                         Text_MalformedCommandRequest, st.thr), st)
             ELSE HDC_MsgReply_Command(req, Size, st)
    ELSE IF req[1] = HDC_MessageTypeID_Meta THEN HDC_MsgReply_Meta(req, Size, st)
    ELSE HDC_ProcessRxMessage_Other(req, Size, st)

----------------------------------------------------------------------------
(* The application composing a message call by call *)

\* The message of length L the application composes
Msg(L) == [i \in 1..L |-> (i * 37 + 11) % 256]

NoApp == [m |-> <<>>, fed |-> 0, n |-> 0]

\* HDC_Compose_Packets_From_Stream(NULL, -1)
AppBegin ==
    /\ Idle
    /\ pPktStart = NullPtr
    /\ Len(msgs) < MaxMsgs
    /\ \E L \in MsgLens : app' = [m |-> Msg(L), fed |-> 0, n |-> 0]
    /\ calls' = <<BeginCall>>
    /\ UNCHANGED <<devVars, TX_CAP, txVars, streamVars, pc, pos, linkVars, errorHandler, pkts, msgs>>

\* HDC_Compose_Packets_From_Stream(data, k): the next k bytes of the message
AppAppend ==
    /\ Idle
    /\ pPktStart # NullPtr
    /\ app.n < MaxAppends
    /\ LET rest == Len(app.m) - app.fed
       IN \E k \in (IF app.n = MaxAppends - 1 THEN {} ELSE {x \in ChunkSizes : x <= rest})
                   \cup {rest} :
            /\ calls' = <<DataCall(SubSeq(app.m, app.fed + 1, app.fed + k))>>
            /\ app' = [app EXCEPT !.fed = @ + k, !.n = @ + 1]
    /\ UNCHANGED <<devVars, TX_CAP, txVars, streamVars, pc, pos, linkVars, errorHandler, pkts, msgs>>

\* HDC_Compose_Packets_From_Stream(NULL, -2)
AppEnd ==
    /\ Idle
    /\ pPktStart # NullPtr
    /\ app.fed = Len(app.m)
    /\ calls' = <<EndCall>>
    /\ app' = NoApp
    /\ UNCHANGED <<devVars, TX_CAP, txVars, streamVars, pc, pos, linkVars, errorHandler, pkts, msgs>>

----------------------------------------------------------------------------
(* Specifications *)

\* The host before it has sent anything
NoHost == [n |-> 0, req |-> <<>>, junk |-> 0, phase |-> "idle", base |-> 0]

\* BufferRx before anything was received
EmptyBufferRx == [j \in 0..(HDC_BUFFER_SIZE_RX - 1) |-> 0]

\* HDC_Init_WithCustomMsgRouting, with HDC_BUFFER_SIZE_TX = cap, for the
\* features given in Features, but for the RX buffer, the host and the calls
\* of the main thread
HDC_Init_WithCustomMsgRouting(cap, router) ==
    /\ CustomMsgRouter = router
    /\ isDmaRxComplete = FALSE
    /\ rxPos = 0
    /\ FeatureState = [i \in 1..Len(Features) |-> Core_State_Off]
    /\ LogEventThreshold = [i \in 1..Len(Features) |-> HDC_EventLogLevel_INFO]
    /\ led_blinking_rate = 5
    /\ mem = TypedMemory
    /\ parsed = NotParsed
    /\ TX_CAP = cap
    /\ BufferTx = [i \in 0..1 |-> [j \in 0..(cap - 1) |-> 0]]
    /\ NumBytesInBufferTx = [i \in 0..1 |-> 0]
    /\ isDmaTxComplete = TRUE
    /\ currentDmaBufferTx = 0
    /\ pPktStart = NullPtr
    /\ pPktEnd = NullPtr
    /\ pNumBytesInBuffer = NullIdx
    /\ pc = "run"
    /\ pos = 0
    /\ linkBusy = FALSE
    /\ linkBuf = 0
    /\ linkLen = 0
    /\ linkData = <<>>
    /\ sent = <<>>
    /\ txOverlap = FALSE
    /\ errorHandler = FALSE
    /\ pkts = <<>>
    /\ msgs = <<>>
    /\ app = NoApp

\* HDC_Init: HDC_Init_WithCustomMsgRouting without a router
InitCommon(cap) == HDC_Init_WithCustomMsgRouting(cap, NULL)

InitWith(cap) ==
    /\ Features = Core_HDC_Features
    /\ InitCommon(cap)
    /\ BufferRx = EmptyBufferRx
    /\ NumBytesInBufferRx = 0
    /\ host = NoHost
    /\ calls = <<>>

InitStream == InitWith(HDC_BUFFER_SIZE_TX)

NextStream ==
    \/ AppBegin
    \/ AppAppend
    \/ AppEnd
    \/ HDC_Compose_Packets_From_Stream
    \/ HDC_GetTxBuffer_Switch
    \/ HDC_Work
    \/ HDC_Work_Tx
    \/ HDC_Flush
    \/ HDC_StartTransmittingAnyPendingPackets
    \/ HDC_Flush_Complete
    \/ HDC_Flush_Timeout
    \/ HDC_TxCpltCallback

\* The composer driven call by call, in the repository's configuration
SpecStream == InitStream /\ [][NextStream]_vars

InitCap == \E cap \in TxCaps : InitWith(cap)

\* The composer driven call by call, for several values of HDC_BUFFER_SIZE_TX
SpecCap == InitCap /\ [][NextStream]_vars

----------------------------------------------------------------------------
(* The framer on its own *)

\* The host's checksum of a payload
HostChecksum(payload) == (256 - SumBytes(payload)) % 256

\* The host's packet for a request message of at most 254 bytes
PacketOf(payload) ==
    <<Len(payload)>> \o payload \o <<HostChecksum(payload), HDC_PACKET_TERMINATOR>>

\* The request payload of length L given to the framer
FramedMsg(L) == [i \in 1..L |-> (i * 29 + 212) % 256]

\* The sequences of at most n garbage bytes
RECURSIVE Garbage(_)
Garbage(n) ==
    IF n = 0 THEN {<<>>}
    ELSE Garbage(n - 1) \cup
         {Append(g, x) : g \in {h \in Garbage(n - 1) : Len(h) = n - 1}, x \in GarbageBytes}

\* A window of the RX buffer: garbage, then a valid packet
InitFramer ==
    /\ Features = Core_HDC_Features
    /\ InitCommon(HDC_BUFFER_SIZE_TX)
    /\ calls = <<>>
    /\ \E g \in Garbage(MaxGarbage), L \in FramedLens :
          /\ BufferRx = DmaWrite(EmptyBufferRx, 0, g \o PacketOf(FramedMsg(L)))
          /\ NumBytesInBufferRx = Len(g) + L + HDC_PACKET_OVERHEAD
          /\ host = [NoHost EXCEPT !.req = FramedMsg(L), !.junk = Len(g)]

\* HDC_ParsePacket(hHDC.BufferRx, hHDC.NumBytesInBufferRx, &ReadingFrameErrorCounter)
ParseWindow ==
    /\ parsed = NotParsed
    /\ parsed' = HDC_ParsePacket(BufferRx, NumBytesInBufferRx)
    /\ UNCHANGED <<rxVars, featVars, host, TX_CAP, txVars, streamVars, pc, calls, pos,
                   linkVars, errorHandler, pkts, msgs, app>>

NextFramer == ParseWindow

\* HDC_ParsePacket applied to windows of garbage followed by a valid packet
SpecFramer == InitFramer /\ [][NextFramer]_vars

\* Any bytes in the RX buffer, any number of them being the chunk received;
\* the bytes behind the chunk are those of an earlier, longer burst
InitWindow ==
    /\ Features = Core_HDC_Features
    /\ InitCommon(HDC_BUFFER_SIZE_TX)
    /\ calls = <<>>
    /\ host = NoHost
    /\ \E w \in [1..WindowLen -> WindowBytes], N \in 0..WindowLen :
          /\ BufferRx = DmaWrite(EmptyBufferRx, 0, w)
          /\ NumBytesInBufferRx = N

\* HDC_ParsePacket applied to arbitrary windows
SpecWindow == InitWindow /\ [][NextFramer]_vars

----------------------------------------------------------------------------
(* The device: requests, HDC_ProcessRxBuffer, state transitions, reset *)

\* An Echo request of n bytes
EchoRequest(n) == <<HDC_MessageTypeID_Echo>> \o [i \in 1..(n - 1) |-> (i * 53 + 7) % 256]

\* A Command request
Cmd(FeatureID, CommandID, args) ==
    <<HDC_MessageTypeID_Command, FeatureID, CommandID>> \o args

\* The request messages the host sends
Requests ==
    {<<>>, <<66>>, <<HDC_MessageTypeID_Command>>, <<HDC_MessageTypeID_Command, 0>>}
    \cup {EchoRequest(n) : n \in {1, 2, HDC_MAX_REQ_MESSAGE_SIZE}}
    \cup {Cmd(7, HDC_CommandID_GetPropertyValue, <<18>>), Cmd(0, 122, <<>>),
          Cmd(7, 122, <<1, 2>>)}
    \cup {Cmd(0, HDC_CommandID_GetPropertyValue, a) :
            a \in {<<>>, <<16>>, <<17>>, <<18>>, <<85>>, <<18, 0>>,
                   <<HDC_PropertyID_LogEventThreshold>>, <<HDC_PropertyID_FeatureState>>}}
    \cup {Cmd(0, HDC_CommandID_SetPropertyValue, a) :
            a \in {<<>>, <<18>>, <<18, 9>>, <<18, 9, 9>>, <<17, 1>>, <<85, 1>>,
                   <<HDC_PropertyID_FeatureState, 2>>,
                   <<HDC_PropertyID_LogEventThreshold, 0>>,
                   <<HDC_PropertyID_LogEventThreshold, 44>>,
                   <<HDC_PropertyID_LogEventThreshold, 255>>}}
    \cup {Cmd(0, 1, a) : a \in {<<>>, <<0>>}}
    \cup {Cmd(0, 2, a) : a \in {<<>>, <<0, 0, 128, 63, 0, 0, 0, 0>>,
                                <<0, 0, 128, 63, 0, 0, 0, 64>>}}

\* The garbage that may precede the packet of a request
JunkBefore(r) == IF Len(r) \in {1, 4, 5} THEN {<<>>, <<255>>} ELSE {<<>>}

\* The host sends a request as one burst, possibly after a garbage byte, and
\* the link signals the end of the burst.  The host sends no request before
\* it has the reply to the one before; as the driver reads the RX flags only
\* at the start of HDC_Work, the burst may as well arrive between two calls
\* of the main loop.
HostRequest ==
    /\ Idle
    /\ pPktStart = NullPtr
    /\ ~isDmaRxComplete
    /\ host.n < MaxReqs
    /\ \E r \in Requests : \E g \in JunkBefore(r) :
          /\ HDC_RxEventCallback(g \o PacketOf(r))
          /\ host' = [n |-> host.n + 1, req |-> r, junk |-> Len(g),
                      phase |-> "sent", base |-> 0]
    /\ UNCHANGED <<featVars, parsed, TX_CAP, txVars, streamVars, pc, calls, pos, linkVars,
                   errorHandler, pkts, msgs, app>>

\* Mutant of HDC_ProcessRxBuffer: the reception is restarted only when a
\* packet was found
HDC_ProcessRxBufferOfPacket ==
    /\ Running("rx")
    /\ LET r == HDC_ParsePacket(BufferRx, NumBytesInBufferRx)
           restart_reception == r.pkt # NoPacket
           st == [led |-> led_blinking_rate, thr |-> LogEventThreshold, mem |-> mem]
           out == IF r.pkt # NoPacket
                    THEN HDC_ProcessRxMessage(
                           Slice(BufferRx, r.pkt + 1, HDC_BUFFER_SIZE_RX - r.pkt - 1),
                           BufferRx[r.pkt], st)
                    ELSE Outcome(<<>>, st)
           warning == IF r.err > 0 /\ ~out.err
                        THEN HDC_EvtMsg_Log(0, HDC_EventLogLevel_WARNING,
                                            Text_ReadingFrameErrors, out.thr)
                        ELSE <<>>
       IN /\ parsed' = r
          /\ IF restart_reception
               THEN isDmaRxComplete' = FALSE /\ rxPos' = 0
               ELSE UNCHANGED <<isDmaRxComplete, rxPos>>
          /\ led_blinking_rate' = out.led
          /\ LogEventThreshold' = out.thr
          /\ mem' = out.mem
          /\ errorHandler' = out.err
          /\ calls' = out.calls \o warning \o Tail(calls)
          /\ host' = IF r.pkt # NoPacket
                       THEN [host EXCEPT !.phase = "dispatched", !.base = Len(msgs)]
                       ELSE host
    /\ UNCHANGED <<BufferRx, NumBytesInBufferRx, FeatureState, Features, CustomMsgRouter,
                   TX_CAP, txVars,
                   streamVars, pc, pos, linkVars, pkts, msgs, app>>

\* Mutant of HDC_ProcessRxBuffer: the reception is restarted after every
\* pass
HDC_ProcessRxBufferAlways ==
    /\ Running("rx")
    /\ LET r == HDC_ParsePacket(BufferRx, NumBytesInBufferRx)
           restart_reception == TRUE
           st == [led |-> led_blinking_rate, thr |-> LogEventThreshold, mem |-> mem]
           out == IF r.pkt # NoPacket
                    THEN HDC_ProcessRxMessage(
                           Slice(BufferRx, r.pkt + 1, HDC_BUFFER_SIZE_RX - r.pkt - 1),
                           BufferRx[r.pkt], st)
                    ELSE Outcome(<<>>, st)
           warning == IF r.err > 0 /\ ~out.err
                        THEN HDC_EvtMsg_Log(0, HDC_EventLogLevel_WARNING,
                                            Text_ReadingFrameErrors, out.thr)
                        ELSE <<>>
       IN /\ parsed' = r
          /\ IF restart_reception
               THEN isDmaRxComplete' = FALSE /\ rxPos' = 0
               ELSE UNCHANGED <<isDmaRxComplete, rxPos>>
          /\ led_blinking_rate' = out.led
          /\ LogEventThreshold' = out.thr
          /\ mem' = out.mem
          /\ errorHandler' = out.err
          /\ calls' = out.calls \o warning \o Tail(calls)
          /\ host' = IF r.pkt # NoPacket
                       THEN [host EXCEPT !.phase = "dispatched", !.base = Len(msgs)]
                       ELSE host
    /\ UNCHANGED <<BufferRx, NumBytesInBufferRx, FeatureState, Features, CustomMsgRouter,
                   TX_CAP, txVars,
                   streamVars, pc, pos, linkVars, pkts, msgs, app>>

\* HDC_ProcessRxBuffer: parse, restart the reception, dispatch the request
\* to its handler, report reading-frame errors.  The handler's calls and the
\* log are what the main thread does next.
HDC_ProcessRxBuffer ==
    /\ Running("rx")
    /\ LET r == HDC_ParsePacket(BufferRx, NumBytesInBufferRx)
           restart_reception == r.pkt # NoPacket \/ r.err > 0
           st == [led |-> led_blinking_rate, thr |-> LogEventThreshold, mem |-> mem]
           out == IF r.pkt # NoPacket
                    THEN HDC_ProcessRxMessage(
                           Slice(BufferRx, r.pkt + 1, HDC_BUFFER_SIZE_RX - r.pkt - 1),
                           BufferRx[r.pkt], st)
                    ELSE Outcome(<<>>, st)
           warning == IF r.err > 0 /\ ~out.err
                        THEN HDC_EvtMsg_Log(0, HDC_EventLogLevel_WARNING,
                                            Text_ReadingFrameErrors, out.thr)
                        ELSE <<>>
       IN /\ parsed' = r
          /\ IF restart_reception
               THEN isDmaRxComplete' = FALSE /\ rxPos' = 0
               ELSE UNCHANGED <<isDmaRxComplete, rxPos>>
          /\ led_blinking_rate' = out.led
          /\ LogEventThreshold' = out.thr
          /\ mem' = out.mem
          /\ errorHandler' = out.err
          /\ calls' = out.calls \o warning \o Tail(calls)
          /\ host' = IF r.pkt # NoPacket
                       THEN [host EXCEPT !.phase = "dispatched", !.base = Len(msgs)]
                       ELSE host
    /\ UNCHANGED <<BufferRx, NumBytesInBufferRx, FeatureState, Features, CustomMsgRouter,
                   TX_CAP, txVars,
                   streamVars, pc, pos, linkVars, pkts, msgs, app>>

\* Mutant of HDC_FeatureStateTransition: the event names the new state first
HDC_FeatureStateTransitionSwapped ==
    /\ Running("transition")
    /\ LET i == Head(calls).data[1]
           newState == Head(calls).data[2]
           oldState == FeatureState[i]
       IN IF newState = oldState
            THEN /\ calls' = Tail(calls)
                 /\ UNCHANGED FeatureState
            ELSE /\ FeatureState' = [FeatureState EXCEPT ![i] = newState]
                 /\ calls' = HDC_EvtMsg(i, HDC_EventID_FeatureStateTransition,
                                        <<newState>>, <<oldState>>) \o Tail(calls)
    /\ UNCHANGED <<rxVars, LogEventThreshold, led_blinking_rate, Features, CustomMsgRouter,
                   mem, host, parsed,
                   TX_CAP, txVars, streamVars, pc, pos, linkVars, errorHandler, pkts, msgs,
                   app>>

\* Mutant of HDC_FeatureStateTransition: the event is raised for a transition
\* into the same state too
HDC_FeatureStateTransitionAlways ==
    /\ Running("transition")
    /\ LET i == Head(calls).data[1]
           newState == Head(calls).data[2]
           oldState == FeatureState[i]
       IN /\ FeatureState' = [FeatureState EXCEPT ![i] = newState]
          /\ calls' = HDC_EvtMsg(i, HDC_EventID_FeatureStateTransition,
                                 <<oldState>>, <<newState>>) \o Tail(calls)
    /\ UNCHANGED <<rxVars, LogEventThreshold, led_blinking_rate, Features, CustomMsgRouter,
                   mem, host, parsed,
                   TX_CAP, txVars, streamVars, pc, pos, linkVars, errorHandler, pkts, msgs,
                   app>>

\* HDC_FeatureStateTransition
HDC_FeatureStateTransition ==
    /\ Running("transition")
    /\ LET i == Head(calls).data[1]
           newState == Head(calls).data[2]
           oldState == FeatureState[i]
       IN IF newState = oldState
            THEN /\ calls' = Tail(calls)
                 /\ UNCHANGED FeatureState
            ELSE /\ FeatureState' = [FeatureState EXCEPT ![i] = newState]
                 /\ calls' = HDC_EvtMsg(i, HDC_EventID_FeatureStateTransition,
                                        <<oldState>>, <<newState>>) \o Tail(calls)
    /\ UNCHANGED <<rxVars, LogEventThreshold, led_blinking_rate, Features, CustomMsgRouter,
                   mem, host, parsed,
                   TX_CAP, txVars, streamVars, pc, pos, linkVars, errorHandler, pkts, msgs,
                   app>>

\* feature_core.c: Core_Init after HDC_Init
Core_Init ==
    <<TransitionCall(1, Core_State_Initializing), TransitionCall(1, Core_State_Ready)>>

\* NVIC_SystemReset: the microcontroller starts again, what was handed to the
\* link stays handed over
NVIC_SystemReset ==
    /\ Running("reset")
    /\ BufferRx' = EmptyBufferRx
    /\ NumBytesInBufferRx' = 0
    /\ isDmaRxComplete' = FALSE
    /\ rxPos' = 0
    /\ FeatureState' = <<Core_State_Off>>
    /\ LogEventThreshold' = <<HDC_EventLogLevel_INFO>>
    /\ led_blinking_rate' = 5
    /\ mem' = TypedMemory
    /\ BufferTx' = [i \in 0..1 |-> [j \in 0..(TX_CAP - 1) |-> 0]]
    /\ NumBytesInBufferTx' = [i \in 0..1 |-> 0]
    /\ isDmaTxComplete' = TRUE
    /\ currentDmaBufferTx' = 0
    /\ linkBusy' = FALSE
    /\ calls' = Core_Init
    /\ host' = [host EXCEPT !.phase = "reset"]
    /\ UNCHANGED <<Features, CustomMsgRouter, parsed, TX_CAP, streamVars, pc, pos, linkBuf,
                   linkLen, linkData,
                   sent, txOverlap, errorHandler, pkts, msgs, app>>

\* The demo after Core_Init has called HDC_Init
Init ==
    /\ Features = Core_HDC_Features
    /\ InitCommon(HDC_BUFFER_SIZE_TX)
    /\ BufferRx = EmptyBufferRx
    /\ NumBytesInBufferRx = 0
    /\ host = NoHost
    /\ calls = Core_Init

Next ==
    \/ HostRequest
    \/ HDC_Work
    \/ HDC_ProcessRxBuffer
    \/ HDC_FeatureStateTransition
    \/ NVIC_SystemReset
    \/ HDC_Compose_Packets_From_Stream
    \/ HDC_GetTxBuffer_Switch
    \/ HDC_Work_Tx
    \/ HDC_StartTransmittingAnyPendingPackets
    \/ HDC_Flush_Complete
    \/ HDC_Flush_Timeout
    \/ HDC_TxCpltCallback

\* The demo device serving the requests of a host
Spec == Init /\ [][Next]_vars

----------------------------------------------------------------------------
(* What the host sees *)

\* Neither a message is being composed nor a call is in progress
Quiescent == Idle /\ pPktStart = NullPtr

\* The bytes of the composition buffer that are counted in it
PendingBytes ==
    Slice(BufferTx[indexOfBufferBeingComposed], 0,
          NumBytesInBufferTx[indexOfBufferBeingComposed])

\* The bytes of the finalized packets, in the order they were finalized
PktBytes == [i \in 1..Len(pkts) |-> pkts[i].b]

\* The payload of packet p
PayloadOf(p) == SubSeq(p, 2, Len(p) - 2)

\* The packets of message number k
PktsOfMsg(k) == SelectSeq(pkts, LAMBDA r : r.m = k)

\* The host's reassembly of a byte stream: cut it into packets by their first
\* byte and concatenate the payloads up to a packet of fewer than 255 bytes.
\* A stream that ends inside a packet or inside a message ends with a
\* message that holds -1, which is no byte.
RECURSIVE HostMessages(_, _)
HostMessages(s, acc) ==
    IF s = <<>>
      THEN (IF acc = <<>> THEN <<>> ELSE <<acc \o <<-1>>>>)
      ELSE IF Len(s) < s[1] + HDC_PACKET_OVERHEAD
        THEN <<acc \o <<-1>>>>
        ELSE LET payload == SubSeq(s, 2, s[1] + 1)
                 rest == SubSeq(s, s[1] + HDC_PACKET_OVERHEAD + 1, Len(s))
             IN IF s[1] < FULL_PACKET_PAYLOAD
                  THEN <<acc \o payload>> \o HostMessages(rest, <<>>)
                  ELSE HostMessages(rest, acc \o payload)

----------------------------------------------------------------------------
(* Claims about the replies to requests *)

\* HDC_Work has returned after it dispatched the request of the host
WorkReturned == Idle /\ pPktStart = NullPtr /\ host.phase = "dispatched"

\* The numbers of the messages of type t composed since the request was dispatched
RepliesOfType(t) ==
    {k \in (host.base + 1)..Len(msgs) : msgs[k] # <<>> /\ msgs[k][1] = t}

\* The numbers of the messages other than events composed since the request
\* was dispatched
Replies ==
    {k \in (host.base + 1)..Len(msgs) :
        msgs[k] = <<>> \/ msgs[k][1] # HDC_MessageTypeID_Event}

\* The request is a Command request the core answers itself
CoreAnswers(req) ==
    /\ Len(req) >= 3
    /\ req[1] = HDC_MessageTypeID_Command
    /\ \/ HDC_GetFeature(req[2]) = 0
       \/ HDC_GetCommand(HDC_GetFeature(req[2]), req[3]) = NoDescriptor
       \/ req[3] \in {HDC_CommandID_GetPropertyValue, HDC_CommandID_SetPropertyValue}

\* C4: when HDC_Work has returned after an Echo request with payload p of 1
\* to HDC_MAX_REQ_MESSAGE_SIZE bytes, exactly one reply message has been
\* composed, it is p byte for byte, and it is in a single packet whose
\* payload is p.
C4_EchoIdentity ==
    (WorkReturned /\ Len(host.req) >= 1 /\ host.req[1] = HDC_MessageTypeID_Echo) =>
        /\ Cardinality(Replies) = 1
        /\ \A k \in Replies :
              /\ msgs[k] = host.req
              /\ Len(PktsOfMsg(k)) = 1
              /\ PayloadOf(PktsOfMsg(k)[1].b) = host.req

\* C4 witness: the Echo request of HDC_MAX_REQ_MESSAGE_SIZE bytes has been
\* answered.
C4_Witness ==
    /\ WorkReturned
    /\ Len(host.req) = HDC_MAX_REQ_MESSAGE_SIZE
    /\ host.req[1] = HDC_MessageTypeID_Echo
    /\ Replies # {}

\* C5: when HDC_Work has returned after a Command request of 3 bytes or more
\* that the core answers itself, exactly one Command reply has been composed;
\* it has at least the 4 bytes 0xF2, FeatureID, CommandID, ExceptionID, with
\* FeatureID and CommandID those of the request, and its packets carry it.
C5_OneCommandReply ==
    (WorkReturned /\ CoreAnswers(host.req)) =>
        /\ Cardinality(RepliesOfType(HDC_MessageTypeID_Command)) = 1
        /\ Replies = RepliesOfType(HDC_MessageTypeID_Command)
        /\ \A k \in Replies :
              /\ Len(msgs[k]) >= 4
              /\ msgs[k][2] = host.req[2]
              /\ msgs[k][3] = host.req[3]
              /\ Len(PktsOfMsg(k)) = 1
              /\ PayloadOf(PktsOfMsg(k)[1].b) = msgs[k]

\* C5 witness: a SetPropertyValue on led_blinking_rate has been answered
\* with the value it stored.
C5_Witness ==
    /\ WorkReturned
    /\ CoreAnswers(host.req)
    /\ host.req[3] = HDC_CommandID_SetPropertyValue
    /\ \E k \in Replies :
          /\ msgs[k][4] = HDC_CommandErrorCode_NO_ERROR
          /\ Len(msgs[k]) = 5
          /\ msgs[k][5] = led_blinking_rate
          /\ led_blinking_rate # 5

----------------------------------------------------------------------------
(* Claims about the packet composer and the TX buffers *)

\* C1: every packet the composer finalizes in a TX buffer starts with the
\* number of its payload bytes, has payload plus checksum sum to 0 modulo
\* 256, and ends with the terminator 0x1E.
C1_ChecksumLaw ==
    \A i \in 1..Len(pkts) :
        LET p == pkts[i].b
        IN /\ Len(p) >= HDC_PACKET_OVERHEAD
           /\ p[1] = Len(p) - HDC_PACKET_OVERHEAD
           /\ (SumBytes(PayloadOf(p)) + p[Len(p) - 1]) % 256 = 0
           /\ p[Len(p)] = HDC_PACKET_TERMINATOR

\* C1 witness: a full packet, a partial packet with a checksum other than 0
\* and an empty packet have been finalized.
C1_Witness ==
    /\ \E i \in 1..Len(pkts) : Len(pkts[i].b) = FULL_PACKET_PAYLOAD + HDC_PACKET_OVERHEAD
    /\ \E i \in 1..Len(pkts) : Len(pkts[i].b) = HDC_PACKET_OVERHEAD
    /\ \E i \in 1..Len(pkts) :
          /\ Len(pkts[i].b) = 1 + HDC_PACKET_OVERHEAD
          /\ pkts[i].b[3] # 0

\* C2: once the messages are composed, the host's reassembly of the byte
\* stream (what was handed to the link, then what is pending in the
\* composition buffer) is exactly the list of the messages passed to the
\* composer, each of them a message the application chose, with no byte left over.
C2_RoundTrip ==
    Quiescent =>
        /\ HostMessages(sent \o PendingBytes, <<>>) = msgs
        /\ \A i \in 1..Len(msgs) : \E L \in MsgLens : msgs[i] = Msg(L)

\* C2 witness: messages of 510 and of 0 bytes have been composed.
C2_Witness ==
    /\ Quiescent
    /\ Len(msgs) = 2
    /\ Len(msgs[1]) = 2 * FULL_PACKET_PAYLOAD
    /\ Len(msgs[2]) = 0

\* C3: in every message all packets but the last carry 255 payload bytes and
\* the last carries fewer; a message of n bytes has n \div 255 + 1 packets, so
\* one whose length is a multiple of 255 ends with an empty packet.
C3_PacketSizes ==
    \A k \in 1..Len(msgs) :
        LET ps == PktsOfMsg(k)
            complete == k < Len(msgs) \/ pPktStart = NullPtr
        IN /\ \A i \in 1..Len(ps) :
                 i < Len(ps) \/ ~complete => ps[i].b[1] = FULL_PACKET_PAYLOAD
           /\ complete /\ (pc = "run") =>
                 /\ Len(ps) = Len(msgs[k]) \div FULL_PACKET_PAYLOAD + 1
                 /\ ps[Len(ps)].b[1] = Len(msgs[k]) % FULL_PACKET_PAYLOAD
                 /\ Len(msgs[k]) % FULL_PACKET_PAYLOAD = 0 =>
                        ps[Len(ps)].b = <<0, 0, HDC_PACKET_TERMINATOR>>

\* C3 witness: a message of 510 bytes appended in pieces of 254, 1 and 255
\* bytes is complete, in three packets.
C3_Witness ==
    /\ Quiescent
    /\ Len(msgs) >= 1
    /\ Len(msgs[1]) = 2 * FULL_PACKET_PAYLOAD
    /\ Len(PktsOfMsg(1)) = 3

\* C6: no transmit is started while an earlier one has not signalled its
\* completion, and the flag isDmaTxComplete is clear while one is outstanding.
C6_OneTransmit ==
    /\ ~txOverlap
    /\ linkBusy => ~isDmaTxComplete

\* C6 witness: a second transmit is outstanding while the main thread waits
\* to switch buffers again.
C6_Witness ==
    /\ linkBusy
    /\ Len(sent) > linkLen
    /\ pc = "wait"

\* C7: while a buffer is being transmitted its bytes and its byte count are
\* those handed to the link.
C7_TransmittingBufferUntouched ==
    linkBusy =>
        /\ NumBytesInBufferTx[linkBuf] = linkLen
        /\ Slice(BufferTx[linkBuf], 0, linkLen) = linkData

\* C7 witness: the second packet of a message is being composed while the
\* first one, swapped out in the middle of the message, is being transmitted.
C7_Witness ==
    /\ linkBusy
    /\ pc = "run"
    /\ pPktStart # NullPtr
    /\ pPktEnd.off > 2
    /\ Len(PktsOfMsg(Len(msgs))) >= 1
    /\ linkData = PktsOfMsg(Len(msgs))[1].b

\* C8: the bytes handed to the link are the packets composed so far, in
\* the order of their composition, up to some packet; the packets after it
\* are unchanged at the front of the composition buffer.
C8_WireOrder ==
    \E k \in 0..Len(pkts) :
        LET rest == Flatten(SubSeq(PktBytes, k + 1, Len(pkts)))
        IN /\ sent = Flatten(SubSeq(PktBytes, 1, k))
           /\ Len(rest) <= NumBytesInBufferTx[indexOfBufferBeingComposed]
           /\ Slice(BufferTx[indexOfBufferBeingComposed], 0, Len(rest)) = rest

\* C8 witness: the packets of two messages have been handed to the link in
\* three transmits.
C8_Witness ==
    /\ Len(msgs) = 2
    /\ Len(pkts) = 3
    /\ sent = Flatten(PktBytes)

\* C9: a message begun while the composition buffer holds finalized packets
\* and has room for one more full packet is composed behind them: the next
\* byte is written behind the bytes counted in the buffer, and the finalized
\* packets not yet handed to the link are unchanged at its front.
C9_ReserveBehindComposed ==
    /\ (pc = "run" /\ pPktStart # NullPtr) =>
           pPktEnd.off = NumBytesInBufferTx[pPktEnd.buf] + 1
    /\ \E k \in 0..Len(pkts) :
           LET rest == Flatten(SubSeq(PktBytes, k + 1, Len(pkts)))
           IN /\ sent = Flatten(SubSeq(PktBytes, 1, k))
              /\ Len(rest) <= NumBytesInBufferTx[indexOfBufferBeingComposed]
              /\ Slice(BufferTx[indexOfBufferBeingComposed], 0, Len(rest)) = rest

\* C10: for k garbage bytes placed before a valid packet inside the RX
\* window, the framer returns that valid packet and counts at least k
\* reading-frame errors.
C10_ResyncSafety ==
    parsed # NotParsed =>
        /\ parsed.pkt = host.junk
        /\ parsed.err >= host.junk

----------------------------------------------------------------------------
(* Claims about the framer *)

\* HDC_ParsePacket has returned a packet
PacketReturned == parsed # NotParsed /\ parsed.pkt # NoPacket

\* C11: a packet the framer returns lies inside the chunk it was given, its
\* payload size is at most HDC_MAX_REQ_MESSAGE_SIZE, its payload and checksum
\* sum to 0 modulo 256 and its last byte is the terminator 0x1E.
C11_FramerSafety ==
    PacketReturned =>
        LET i == parsed.pkt
            payload_size == BufferRx[i]
        IN /\ i >= 0
           /\ i + payload_size + HDC_PACKET_OVERHEAD <= NumBytesInBufferRx
           /\ payload_size <= HDC_MAX_REQ_MESSAGE_SIZE
           /\ SumBytes(Slice(BufferRx, i + 1, payload_size + 1)) = 0
           /\ BufferRx[i + payload_size + 2] = HDC_PACKET_TERMINATOR

\* C11 witness: a packet with a payload was returned from behind a byte that
\* was skipped, out of a chunk that ends with it.
C11_Witness ==
    /\ PacketReturned
    /\ parsed.pkt > 0
    /\ BufferRx[parsed.pkt] > 0
    /\ BufferRx[parsed.pkt + 1] > 0

----------------------------------------------------------------------------
(* Claims about the exceptions of the dispatcher and the property commands *)

\* The exception a Command request is answered with because a lookup misses:
\* the feature, then the command, then the property of a GetPropertyValue of
\* 4 bytes or a SetPropertyValue that names one; NO_ERROR if none misses
LookupMiss(req) ==
    IF Len(req) < 3 \/ req[1] # HDC_MessageTypeID_Command
      THEN HDC_CommandErrorCode_NO_ERROR
    ELSE IF HDC_GetFeature(req[2]) = 0 THEN HDC_CommandErrorCode_UNKNOWN_FEATURE
    ELSE IF HDC_GetCommand(HDC_GetFeature(req[2]), req[3]) = NoDescriptor
      THEN HDC_CommandErrorCode_UNKNOWN_COMMAND
    ELSE IF /\ \/ req[3] = HDC_CommandID_GetPropertyValue /\ Len(req) = 4
               \/ req[3] = HDC_CommandID_SetPropertyValue /\ Len(req) >= 4
            /\ HDC_GetProperty(HDC_GetFeature(req[2]), req[4]) = NoDescriptor
      THEN HDC_CommandErrorCode_UNKNOWN_PROPERTY
    ELSE HDC_CommandErrorCode_NO_ERROR

\* The step in which HDC_ProcessRxBuffer dispatches the request of the host
Dispatching == host.phase = "sent" /\ host'.phase = "dispatched"

\* C12: a Command request whose feature, command or property is not found
\* is answered with one reply that carries UnknownFeature, UnknownCommand
\* or UnknownProperty and nothing else, and dispatching it changes no
\* property value.
C12_LookupMisses ==
    /\ [](WorkReturned /\ LookupMiss(host.req) # HDC_CommandErrorCode_NO_ERROR =>
            /\ Cardinality(Replies) = 1
            /\ \A k \in Replies :
                  msgs[k] = <<HDC_MessageTypeID_Command, host.req[2], host.req[3],
                              LookupMiss(host.req)>>)
    /\ [][Dispatching /\ LookupMiss(host.req) # HDC_CommandErrorCode_NO_ERROR =>
            UNCHANGED featVars]_vars

\* C12 witness: a SetPropertyValue on a property the core feature does not
\* have has been answered.
C12_Witness ==
    /\ WorkReturned
    /\ LookupMiss(host.req) = HDC_CommandErrorCode_UNKNOWN_PROPERTY
    /\ host.req[3] = HDC_CommandID_SetPropertyValue
    /\ Replies # {}

----------------------------------------------------------------------------
(* The property commands under a host that reads a property, writes it and *)
(* reads it again                                                          *)

\* The properties the host addresses: those of Typed_HDC_Feature, the
\* mandatory ones, and one that is not available
ScriptProperties ==
    {16, 17, 18, 32, 33, 34, 35, 85,
     HDC_PropertyID_LogEventThreshold, HDC_PropertyID_FeatureState}

\* The values the host writes
ScriptValues == {<<>>, <<0>>, <<7>>, <<44>>, <<1, 2>>, <<65, 0, 67>>, <<9, 8, 7, 6>>}

\* GetPropertyValue(P), SetPropertyValue(P, v), GetPropertyValue(P)
Script(P, v) ==
    << Cmd(HDC_FeatureID_Core, HDC_CommandID_GetPropertyValue, <<P>>),
       Cmd(HDC_FeatureID_Core, HDC_CommandID_SetPropertyValue, <<P>> \o v),
       Cmd(HDC_FeatureID_Core, HDC_CommandID_GetPropertyValue, <<P>>) >>

\* The messages other than events composed since the request was dispatched
ReplyMsgs ==
    SelectSeq(SubSeq(msgs, host.base + 1, Len(msgs)),
              LAMBDA r : r = <<>> \/ r[1] # HDC_MessageTypeID_Event)

\* The application with TypedProperties after it has called HDC_Init; the
\* host has chosen what it will read and write
InitProperty ==
    /\ Features = Typed_HDC_Features
    /\ InitCommon(HDC_BUFFER_SIZE_TX)
    /\ BufferRx = EmptyBufferRx
    /\ NumBytesInBufferRx = 0
    /\ calls = Core_Init
    /\ \E P \in ScriptProperties, v \in ScriptValues :
          host = [n |-> 0, req |-> <<>>, junk |-> 0, phase |-> "idle", base |-> 0,
                  script |-> Script(P, v), got |-> <<>>]

\* The host has the reply to its last request, keeps it, and sends the next
\* request of its script as one burst
HostPropertyRequest ==
    /\ Idle
    /\ pPktStart = NullPtr
    /\ ~isDmaRxComplete
    /\ host.n < Len(host.script)
    /\ HDC_RxEventCallback(PacketOf(host.script[host.n + 1]))
    /\ host' = [host EXCEPT !.n = host.n + 1,
                            !.req = host.script[host.n + 1],
                            !.phase = "sent",
                            !.base = 0,
                            !.got = IF host.n = 0 THEN <<>> ELSE Append(host.got, ReplyMsgs)]
    /\ UNCHANGED <<featVars, parsed, TX_CAP, txVars, streamVars, pc, calls, pos, linkVars,
                   errorHandler, pkts, msgs, app>>

NextProperty ==
    \/ HostPropertyRequest
    \/ HDC_Work
    \/ HDC_ProcessRxBuffer
    \/ HDC_FeatureStateTransition
    \/ HDC_Compose_Packets_From_Stream
    \/ HDC_GetTxBuffer_Switch
    \/ HDC_Work_Tx
    \/ HDC_TxCpltCallback

\* The property commands served to a host that reads, writes and reads again
SpecProperty == InitProperty /\ [][NextProperty]_vars


----------------------------------------------------------------------------
(* Claims about the property commands *)

\* The PropertyID the host reads and writes
ScriptP == host.script[1][4]

\* The value the host writes
ScriptV == SubSeq(host.script[2], 5, Len(host.script[2]))

\* The descriptor HDC_GetProperty finds for the PropertyID of the host
ScriptProperty == HDC_GetProperty(HDC_GetFeature(HDC_FeatureID_Core), ScriptP)

\* HDC_Work has returned after the SetPropertyValue request of the host
SetAnswered == WorkReturned /\ host.n = 2

\* HDC_Work has returned after the last request of the host
ScriptDone == WorkReturned /\ host.n = Len(host.script)

\* The host writes a read-only property
ReadOnlyScript == ScriptProperty # NoDescriptor /\ ScriptProperty.PropertyIsReadonly

\* C13: a SetPropertyValue request on a read-only property is answered, for
\* every length and content of the value, with the one reply 0xF2, FeatureID,
\* CommandID, ReadOnlyProperty and no value bytes; dispatching it changes no
\* variable behind a property, and the GetPropertyValue that follows returns
\* what the GetPropertyValue before it returned.
C13_ReadOnlySet ==
    /\ [](ScriptDone /\ ReadOnlyScript =>
            /\ host.got[2] = << <<HDC_MessageTypeID_Command, HDC_FeatureID_Core,
                                  HDC_CommandID_SetPropertyValue,
                                  HDC_CommandErrorCode_PROPERTY_IS_READONLY>> >>
            /\ Len(host.got[1]) = 1
            /\ host.got[1][1][4] = HDC_CommandErrorCode_NO_ERROR
            /\ ReplyMsgs = host.got[1])
    /\ [][Dispatching /\ host.n = 2 /\ ReadOnlyScript => UNCHANGED featVars]_vars

\* C13 witness: the host has written three bytes to the read-only string, has
\* the ReadOnlyProperty reply, and has read the string again.
C13_Witness ==
    /\ ScriptDone
    /\ ScriptP = 35
    /\ ScriptV = <<65, 0, 67>>
    /\ host.got[2][1][4] = HDC_CommandErrorCode_PROPERTY_IS_READONLY
    /\ ReplyMsgs = << <<HDC_MessageTypeID_Command, HDC_FeatureID_Core,
                        HDC_CommandID_GetPropertyValue, HDC_CommandErrorCode_NO_ERROR,
                        72, 68, 67>> >>


\* The host writes a property that is not read-only
WritableScript == ScriptProperty # NoDescriptor /\ ~ScriptProperty.PropertyIsReadonly

\* The value the host writes has a length the data type of the property
\* allows: less than the declared size for UTF8 and BLOB, the size of the
\* data type otherwise
ScriptSizeAllowed ==
    IF ScriptProperty.PropertyDataType \in {HDC_DataTypeID_UTF8, HDC_DataTypeID_BLOB}
      THEN Len(ScriptV) < ScriptProperty.ValueSize
      ELSE Len(ScriptV) = TypedReplySize(ScriptProperty.PropertyDataType)

\* C14: a SetPropertyValue request on a writable property is accepted exactly
\* when the length of the value is less than the declared size (UTF8, BLOB)
\* or equal to the size of the data type (the other types); a rejected
\* request is answered with the one reply 0xF2, FeatureID, CommandID,
\* InvalidArgs, and dispatching it changes no variable behind a property.
C14_SizeValidation ==
    /\ [](SetAnswered /\ WritableScript =>
            /\ Len(ReplyMsgs) = 1
            /\ Len(ReplyMsgs[1]) >= 4
            /\ ReplyMsgs[1][4] = HDC_CommandErrorCode_NO_ERROR <=> ScriptSizeAllowed
            /\ ~ScriptSizeAllowed =>
                  ReplyMsgs[1] = <<HDC_MessageTypeID_Command, HDC_FeatureID_Core,
                                   HDC_CommandID_SetPropertyValue,
                                   HDC_Descriptor_Exc_InvalidArgs>>)
    /\ [][Dispatching /\ host.n = 2 /\ WritableScript /\ ~ScriptSizeAllowed =>
            UNCHANGED featVars]_vars

\* C14 witness: the host has written three bytes to the BLOB of declared
\* size three, has the InvalidArgs reply, and the BLOB is what it was.
C14_Witness ==
    /\ SetAnswered
    /\ ScriptP = 33
    /\ ScriptV = <<65, 0, 67>>
    /\ ReplyMsgs[1][4] = HDC_Descriptor_Exc_InvalidArgs
    /\ mem.blob = TypedMemory.blob


\* The value bytes of a Command reply
ValueOf(reply) == SubSeq(reply, 5, Len(reply))

\* The SetPropertyValue request of the host was answered without exception
SetSucceeded ==
    /\ Len(host.got[2]) = 1
    /\ Len(host.got[2][1]) >= 4
    /\ host.got[2][1][4] = HDC_CommandErrorCode_NO_ERROR

\* C15: when a SetPropertyValue request has succeeded, the GetPropertyValue
\* request that follows it is answered with exactly the value bytes the
\* SetPropertyValue reply carried, which need not be those of the request;
\* this for the properties with a variable behind them and for
\* LogEventThreshold with its setter.
C15_SetThenGet ==
    (ScriptDone /\ SetSucceeded) =>
        /\ Len(ReplyMsgs) = 1
        /\ Len(ReplyMsgs[1]) >= 4
        /\ ReplyMsgs[1][4] = HDC_CommandErrorCode_NO_ERROR
        /\ ValueOf(ReplyMsgs[1]) = ValueOf(host.got[2][1])

\* C15 witness: the host has written 44 to LogEventThreshold, the reply
\* carried 40, and so does the reply to the read that followed.
C15_Witness ==
    /\ ScriptDone
    /\ SetSucceeded
    /\ ScriptP = HDC_PropertyID_LogEventThreshold
    /\ ScriptV = <<44>>
    /\ ValueOf(host.got[2][1]) = <<40>>
    /\ ValueOf(ReplyMsgs[1]) = <<40>>


----------------------------------------------------------------------------
(* The application changing the state of the core feature, and a host that *)
(* reads the FeatureState property                                         *)

\* Calls of HDC_FeatureStateTransition the application makes in one behaviour
MaxTransitions == 3

\* feature_core.c: the ids of Core_HDC_States
Core_HDC_States == {Core_State_Off, Core_State_Initializing, Core_State_Ready, Core_State_Error}

\* The values the application passes as newState: the declared ids and one
\* that is not declared
StateArgs == Core_HDC_States \cup {7}

\* GetPropertyValue(FeatureState) on the core feature
GetFeatureState ==
    Cmd(HDC_FeatureID_Core, HDC_CommandID_GetPropertyValue, <<HDC_PropertyID_FeatureState>>)

\* The application calls HDC_FeatureStateTransition(&Core_HDC_Feature, s)
\* from the main loop; app keeps the state before the call, the argument and
\* the number of messages composed before the call
AppTransition ==
    /\ Idle
    /\ pPktStart = NullPtr
    /\ app.n < MaxTransitions
    /\ \E s \in StateArgs :
          /\ calls' = <<TransitionCall(1, s)>>
          /\ app' = [m |-> <<>>, fed |-> 0, n |-> app.n + 1,
                     prev |-> FeatureState[1], arg |-> s, base |-> Len(msgs)]
    /\ UNCHANGED <<devVars, TX_CAP, txVars, streamVars, pc, pos, linkVars, errorHandler,
                   pkts, msgs>>

\* The host sends GetPropertyValue(FeatureState) as one burst
HostGetFeatureState ==
    /\ Idle
    /\ pPktStart = NullPtr
    /\ ~isDmaRxComplete
    /\ host.n < MaxReqs
    /\ HDC_RxEventCallback(PacketOf(GetFeatureState))
    /\ host' = [n |-> host.n + 1, req |-> GetFeatureState, junk |-> 0,
                phase |-> "sent", base |-> 0]
    /\ UNCHANGED <<featVars, parsed, TX_CAP, txVars, streamVars, pc, calls, pos, linkVars,
                   errorHandler, pkts, msgs, app>>

NextTransition ==
    \/ AppTransition
    \/ HostGetFeatureState
    \/ HDC_Work
    \/ HDC_ProcessRxBuffer
    \/ HDC_FeatureStateTransition
    \/ HDC_Compose_Packets_From_Stream
    \/ HDC_GetTxBuffer_Switch
    \/ HDC_Work_Tx
    \/ HDC_TxCpltCallback

\* The demo, its application changing the state of the core feature
SpecTransition == Init /\ [][NextTransition]_vars

----------------------------------------------------------------------------
(* Claims about the state of a feature *)

\* The application has called HDC_FeatureStateTransition, and the call has
\* changed the state if changed is TRUE, has found the state it was to set
\* if changed is FALSE
Called(changed) == app.n > 0 /\ ((app.arg # app.prev) <=> changed)

\* The main thread is back in the main loop
Returned == Idle /\ pPktStart = NullPtr

\* The numbers of the events composed since the application's call
EventsSince ==
    {k \in (app.base + 1)..Len(msgs) :
        msgs[k] # <<>> /\ msgs[k][1] = HDC_MessageTypeID_Event}

\* C16: when HDC_FeatureStateTransition(F, s) is called with s other than the
\* state prev of F, no event is composed before the state is s; when the
\* call has returned, exactly one event has been composed, it is 0xF3, F.id,
\* 0xF1, prev, s, in one packet with that payload; and a GetPropertyValue of
\* FeatureState dispatched after the call is answered with s.
C16_TransitionAtomic ==
    Called(TRUE) =>
        /\ Running("transition") => EventsSince = {}
        /\ ~Running("transition") => FeatureState[1] = app.arg
        /\ Returned =>
              /\ Cardinality(EventsSince) = 1
              /\ \A k \in EventsSince :
                    /\ msgs[k] = <<HDC_MessageTypeID_Event, HDC_FeatureID_Core,
                                   HDC_EventID_FeatureStateTransition, app.prev, app.arg>>
                    /\ Len(PktsOfMsg(k)) = 1
                    /\ PayloadOf(PktsOfMsg(k)[1].b) = msgs[k]
        /\ (WorkReturned /\ host.base > app.base) =>
              ReplyMsgs = << <<HDC_MessageTypeID_Command, HDC_FeatureID_Core,
                               HDC_CommandID_GetPropertyValue,
                               HDC_CommandErrorCode_NO_ERROR, app.arg>> >>

\* C16 witness: the application has taken the core feature from Ready to
\* Error, and the host has read Error.
C16_Witness ==
    /\ Called(TRUE)
    /\ app.prev = Core_State_Ready
    /\ app.arg = Core_State_Error
    /\ WorkReturned
    /\ host.base > app.base
    /\ ReplyMsgs[1][5] = Core_State_Error
    /\ EventsSince # {}

\* C17: HDC_FeatureStateTransition(F, s) with s the state of F changes
\* neither the state nor the TX buffers, their byte counts, the DMA flag and
\* the buffer roles, makes no call of the composer, and no event has been
\* composed when it has returned.
C17_SameStateNoOp ==
    /\ []((Called(FALSE) /\ Returned) =>
            /\ EventsSince = {}
            /\ FeatureState[1] = app.arg)
    /\ [][(/\ Running("transition")
           /\ Head(calls).data[2] = FeatureState[Head(calls).data[1]]
           /\ calls' # calls) =>
              /\ calls' = Tail(calls)
              /\ UNCHANGED <<FeatureState, txVars, streamVars, pkts, msgs>>]_vars

\* C17 witness: the application has called for Ready in Ready after a first
\* call, and is back in the main loop.
C17_Witness ==
    /\ Called(FALSE)
    /\ app.n = 2
    /\ app.arg = Core_State_Ready
    /\ Returned
    /\ EventsSince = {}

\* C18: the state of the core feature, which declares Core_HDC_States, is
\* always one of the declared ids (0xFF, the error state, is one of them).
C18_DeclaredStates == FeatureState[1] \in Core_HDC_States \cup {255}


----------------------------------------------------------------------------
(* HDC_Flush with a link that may never signal the completion of a transmit *)

\* The steps of the main thread inside HDC_Flush
MainThread ==
    \/ HDC_StartTransmittingAnyPendingPackets
    \/ HDC_GetTxBuffer_Switch
    \/ HDC_Flush_Complete
    \/ HDC_Flush_Timeout

\* The composer driven call by call; the processor goes on executing the main
\* thread and HAL_GetTick() goes on counting, while nothing makes the link
\* call HDC_TxCpltCallback
SpecFlush == InitStream /\ [][NextStream]_vars /\ WF_vars(MainThread)

----------------------------------------------------------------------------
(* Claims about HDC_Flush *)

\* The main thread is inside HDC_Flush
InFlush == calls # <<>> /\ Head(calls).op \in {"pending", "flushwait"}

\* C19: whenever the main thread is inside HDC_Flush it leaves it again, also
\* when the link does not signal the completion of a transmit any more.
C19_FlushReturns == InFlush ~> ~InFlush


\* The step in which the wait loop of HDC_Flush ends because it has seen
\* isDmaTxComplete
FlushCompletes == Running("flushwait") /\ isDmaTxComplete /\ calls' = Tail(calls)

\* C20: when HDC_Flush returns because it has seen the transmit complete, the
\* bytes handed to the link are those of all packets composed, in the order
\* of their composition, no transmit is outstanding, and the composition
\* buffer is empty.
C20_FlushDrains ==
    [][FlushCompletes =>
          /\ sent = Flatten(PktBytes)
          /\ ~linkBusy
          /\ PendingBytes = <<>>]_vars


----------------------------------------------------------------------------
(* The application raising log events, for several feature tables, and a   *)
(* host that sets the log thresholds                                       *)

\* Calls of HDC_EvtMsg_Log the application makes in one behaviour
MaxLogs == 1

\* SetPropertyValue requests the host sends in one behaviour
MaxSets == 1

\* A feature of an application, with the mandatory commands and properties
Other_HDC_Feature == [FeatureID |-> 5, Commands |-> <<>>, Properties |-> <<>>]

\* The feature tables the application may pass to HDC_Init: each contains
\* one feature with the ID of the core feature
FeatureTables ==
    {<<Core_HDC_Feature>>, <<Core_HDC_Feature, Other_HDC_Feature>>,
     <<Other_HDC_Feature, Core_HDC_Feature>>}

\* The values the host writes to LogEventThreshold: they leave 10, 30, 40, 50
ThresholdValues == {0, 25, 44, 255}

\* The log levels the application uses
LogLevels == {5, 10, 20, 30, 40, 45, 50}

\* The log texts the application uses, with their zero-terminators
LogTexts == {<<0>>, <<72, 105, 0>>}

InitLog ==
    /\ Features \in FeatureTables
    /\ InitCommon(HDC_BUFFER_SIZE_TX)
    /\ BufferRx = EmptyBufferRx
    /\ NumBytesInBufferRx = 0
    /\ host = NoHost
    /\ calls = <<>>

\* The application calls HDC_EvtMsg_Log(feature, logLevel, logText) from the
\* main loop, feature being NULL for fi = 0; app keeps the arguments, the
\* thresholds at the call and the number of messages composed before it
AppLog ==
    /\ Idle
    /\ pPktStart = NullPtr
    /\ app.n < MaxLogs
    /\ \E fi \in 0..Len(Features), logLevel \in LogLevels, logText \in LogTexts :
          /\ calls' = HDC_EvtMsg_Log(fi, logLevel, logText, LogEventThreshold)
          /\ app' = [m |-> <<>>, fed |-> 0, n |-> app.n + 1, fi |-> fi,
                     level |-> logLevel, text |-> logText, thr |-> LogEventThreshold,
                     base |-> Len(msgs)]
    /\ UNCHANGED <<devVars, TX_CAP, txVars, streamVars, pc, pos, linkVars, errorHandler,
                   pkts, msgs>>

\* The host sends SetPropertyValue(LogEventThreshold, v) for a feature
HostSetThreshold ==
    /\ Idle
    /\ pPktStart = NullPtr
    /\ ~isDmaRxComplete
    /\ host.n < MaxSets
    /\ \E i \in 1..Len(Features), v \in ThresholdValues :
          LET r == Cmd(Features[i].FeatureID, HDC_CommandID_SetPropertyValue,
                       <<HDC_PropertyID_LogEventThreshold, v>>)
          IN /\ HDC_RxEventCallback(PacketOf(r))
             /\ host' = [n |-> host.n + 1, req |-> r, junk |-> 0, phase |-> "sent",
                         base |-> 0]
    /\ UNCHANGED <<featVars, parsed, TX_CAP, txVars, streamVars, pc, calls, pos, linkVars,
                   errorHandler, pkts, msgs, app>>

NextLog ==
    \/ AppLog
    \/ HostSetThreshold
    \/ HDC_Work
    \/ HDC_ProcessRxBuffer
    \/ HDC_Compose_Packets_From_Stream
    \/ HDC_GetTxBuffer_Switch
    \/ HDC_Work_Tx
    \/ HDC_TxCpltCallback

\* The driver logging for an application, under several feature tables
SpecLog == InitLog /\ [][NextLog]_vars

----------------------------------------------------------------------------
(* Claims about the log events *)

\* The log text of the application's call without its zero-terminator
LoggedText == SubSeq(app.text, 1, Len(app.text) - 1)

\* C21: HDC_EvtMsg_Log(F, level, text) with level below the threshold of F
\* queues no call of the composer and changes neither the TX buffers, their
\* byte counts, the DMA flag, the buffer roles nor the composer's statics,
\* and no event has been composed when it has returned; with level at or
\* above the threshold exactly one event has been composed, and it is 0xF3,
\* F.id, 0xF0, level and the bytes of text without the zero-terminator.
C21_LogThreshold ==
    /\ []((app.n > 0 /\ app.fi # 0 /\ Returned) =>
            IF app.level < app.thr[app.fi]
              THEN EventsSince = {}
              ELSE /\ Cardinality(EventsSince) = 1
                   /\ \A k \in EventsSince :
                         msgs[k] = <<HDC_MessageTypeID_Event, Features[app.fi].FeatureID,
                                     HDC_EventID_Log, app.level>> \o LoggedText)
    /\ [][(/\ app'.n = app.n + 1
           /\ app'.fi # 0
           /\ app'.level < LogEventThreshold[app'.fi]) =>
              /\ calls' = <<>>
              /\ UNCHANGED <<txVars, streamVars, pkts, msgs>>]_vars

\* C21 witness: after the host has set the threshold of a feature to 40, a
\* log of level 40 with the text "Hi" has been composed for that feature.
C21_Witness ==
    /\ app.n > 0
    /\ app.fi # 0
    /\ Returned
    /\ app.thr[app.fi] = 40
    /\ app.level = 40
    /\ app.text = <<72, 105, 0>>
    /\ EventsSince # {}

\* The index in Features of the feature with the ID of the core feature
CoreIndex == CHOOSE i \in 1..Len(Features) : Features[i].FeatureID = HDC_FeatureID_Core

\* C22: a log raised with a NULL feature is filtered by the threshold of the
\* feature with ID 0x00 and carries FeatureID 0x00, wherever that feature is
\* in the table.
C22_NullIsCore ==
    (app.n > 0 /\ app.fi = 0 /\ Returned) =>
        IF app.level < app.thr[CoreIndex]
          THEN EventsSince = {}
          ELSE /\ Cardinality(EventsSince) = 1
               /\ \A k \in EventsSince :
                     msgs[k] = <<HDC_MessageTypeID_Event, HDC_FeatureID_Core,
                                 HDC_EventID_Log, app.level>> \o LoggedText


----------------------------------------------------------------------------
(* A host that sets LogEventThreshold of the core feature to any byte, and *)
(* then to the value it was answered                                       *)

\* SetPropertyValue(LogEventThreshold, v) on the core feature
SetThreshold(v) ==
    Cmd(HDC_FeatureID_Core, HDC_CommandID_SetPropertyValue,
        <<HDC_PropertyID_LogEventThreshold, v>>)

\* The host sends SetPropertyValue(LogEventThreshold, v), first for any byte
\* v, then, once it has the reply, for the value of the reply
HostThresholdRequest ==
    /\ Idle
    /\ pPktStart = NullPtr
    /\ ~isDmaRxComplete
    /\ host.n < 2
    /\ \E v \in IF host.n = 0 THEN 0..255 ELSE {ReplyMsgs[1][5]} :
          /\ HDC_RxEventCallback(PacketOf(SetThreshold(v)))
          /\ host' = [n |-> host.n + 1, req |-> SetThreshold(v), junk |-> 0,
                      phase |-> "sent", base |-> 0,
                      got |-> IF host.n = 0 THEN <<>> ELSE ReplyMsgs]
    /\ UNCHANGED <<featVars, parsed, TX_CAP, txVars, streamVars, pc, calls, pos, linkVars,
                   errorHandler, pkts, msgs, app>>

NextThreshold ==
    \/ HostThresholdRequest
    \/ HDC_Work
    \/ HDC_ProcessRxBuffer
    \/ HDC_Compose_Packets_From_Stream
    \/ HDC_GetTxBuffer_Switch
    \/ HDC_Work_Tx
    \/ HDC_TxCpltCallback

\* The demo serving a host that sets LogEventThreshold
SpecThreshold == InitStream /\ [][NextThreshold]_vars

\* The distance of two numbers
Distance(a, b) == IF a < b THEN b - a ELSE a - b

\* C23: for every byte v sent by SetPropertyValue(LogEventThreshold), the
\* threshold stored and the one replied are the same, one of 10, 20, 30, 40,
\* 50, and a multiple of 10 nearest to v clamped to 10..50; setting the
\* replied value is answered with that value again.
C23_ThresholdRounding ==
    (WorkReturned /\ host.n >= 1) =>
        LET v == host.req[5]
            clamped == IF v < 10 THEN 10 ELSE IF v > 50 THEN 50 ELSE v
        IN /\ Len(ReplyMsgs) = 1
           /\ Len(ReplyMsgs[1]) = 5
           /\ ReplyMsgs[1][4] = HDC_CommandErrorCode_NO_ERROR
           /\ ReplyMsgs[1][5] = LogEventThreshold[1]
           /\ LogEventThreshold[1] \in {10, 20, 30, 40, 50}
           /\ Distance(LogEventThreshold[1], clamped) <= 5
           /\ host.n = 2 => ReplyMsgs[1][5] = v /\ ReplyMsgs = host.got

\* C23 witness: the host has sent 255, was answered 50, has sent 50 and was
\* answered 50.
C23_Witness ==
    /\ WorkReturned
    /\ host.n = 2
    /\ host.got[1][5] = 50
    /\ ReplyMsgs[1][5] = 50
    /\ LogEventThreshold[1] = 50


----------------------------------------------------------------------------
(* Claims about the requests that are not routed to a handler *)

\* C24: the packet of an empty message is dropped silently: the step that
\* dispatches it changes nothing of the features and restarts the
\* reception, and from then on no message, neither a reply nor an event,
\* is composed for it.
C24_EmptyDropped ==
    /\ [](host.phase = "dispatched" /\ host.req = <<>> =>
             /\ parsed.pkt # NoPacket
             /\ parsed.err = 0
             /\ Len(msgs) = host.base
             /\ pPktStart = NullPtr
             /\ ~errorHandler)
    /\ [][Dispatching /\ host.req = <<>> =>
             /\ UNCHANGED <<featVars, txVars, streamVars, msgs, pkts>>
             /\ isDmaRxComplete' = FALSE
             /\ rxPos' = 0]_vars

\* C24 witness: HDC_Work has returned after the packet of an empty message
\* was found in the buffer, as the second request.
C24_Witness ==
    /\ WorkReturned
    /\ host.req = <<>>
    /\ host.n = 2
    /\ parsed.pkt # NoPacket
    /\ ~isDmaRxComplete


\* The request of the host is a Command request of fewer than 3 bytes
ShortCommand ==
    /\ host.req # <<>>
    /\ host.req[1] = HDC_MessageTypeID_Command
    /\ Len(host.req) < 3

\* The Log event of the core feature for "Malformed command request"
MalformedLog ==
    <<HDC_MessageTypeID_Event, HDC_FeatureID_Core, HDC_EventID_Log, HDC_EventLogLevel_ERROR>>
    \o Text_MalformedCommandRequest

\* C25: a Command request of fewer than 3 bytes gets no Command reply and
\* reaches no handler: dispatching it changes no feature state, threshold or
\* property, and when HDC_Work has returned after a request that came without
\* garbage, the only message composed is one Log event of level ERROR with
\* the text "Malformed command request" on the core feature, and none at all
\* when the core's threshold is above ERROR.
C25_ShortCommand ==
    /\ []((host.phase = "dispatched" /\ ShortCommand) =>
            /\ RepliesOfType(HDC_MessageTypeID_Command) = {}
            /\ ~errorHandler
            /\ WorkReturned => Replies = {}
            /\ (WorkReturned /\ host.junk = 0) =>
                  IF LogEventThreshold[1] <= HDC_EventLogLevel_ERROR
                    THEN /\ Len(msgs) = host.base + 1
                         /\ msgs[host.base + 1] = MalformedLog
                    ELSE Len(msgs) = host.base)
    /\ [][Dispatching /\ ShortCommand => UNCHANGED featVars]_vars

\* C25 witness: HDC_Work has returned after the second request, a Command
\* request of one byte, and the log event has been composed.
C25_Witness ==
    /\ WorkReturned
    /\ host.n = 2
    /\ host.req = <<HDC_MessageTypeID_Command>>
    /\ host.junk = 0
    /\ Len(msgs) = host.base + 1
    /\ msgs[Len(msgs)] = MalformedLog


----------------------------------------------------------------------------
(* A host that asks for the description of the device *)

\* hdc_device.h: HDC_MetaID_MaxReq
HDC_MetaID_MaxReq == 241

\* The Meta requests the host sends: without a MetaID, with each MetaID of
\* hdc_device.h, with an unknown one, and with bytes after the MetaID
MetaRequests ==
    {<<HDC_MessageTypeID_Meta>>}
    \cup {<<HDC_MessageTypeID_Meta, id>> : id \in {240, HDC_MetaID_MaxReq, 242, 7}}
    \cup {<<HDC_MessageTypeID_Meta, HDC_MetaID_MaxReq, 1, 2>>,
          <<HDC_MessageTypeID_Meta, 240, 0>>}

\* The host sends a Meta request as one burst
HostMetaRequest ==
    /\ Idle
    /\ pPktStart = NullPtr
    /\ ~isDmaRxComplete
    /\ host.n < 1
    /\ \E r \in MetaRequests :
          /\ HDC_RxEventCallback(PacketOf(r))
          /\ host' = [n |-> host.n + 1, req |-> r, junk |-> 0,
                      phase |-> "sent", base |-> 0]
    /\ UNCHANGED <<featVars, parsed, TX_CAP, txVars, streamVars, pc, calls, pos, linkVars,
                   errorHandler, pkts, msgs, app>>

NextMeta ==
    \/ HostMetaRequest
    \/ HDC_Work
    \/ HDC_ProcessRxBuffer
    \/ HDC_FeatureStateTransition
    \/ HDC_Compose_Packets_From_Stream
    \/ HDC_GetTxBuffer_Switch
    \/ HDC_Work_Tx
    \/ HDC_TxCpltCallback

\* The demo serving a host that sends Meta requests
SpecMeta == Init /\ [][NextMeta]_vars

----------------------------------------------------------------------------
(* Claims about the Meta replies *)

\* The bytes of n as an unsigned 32-bit number, least significant first
UInt32LE(n) == [i \in 1..4 |-> (n \div (256 ^ (i - 1))) % 256]

\* C26: when HDC_Work has returned after a Meta request, exactly one message
\* has been composed, and it starts with 0xF0 and the MetaID of the request;
\* for the request F0 F1 it is F0 F1 followed by HDC_MAX_REQ_MESSAGE_SIZE as
\* an unsigned 32-bit number, least significant byte first.
C26_MetaMaxReq ==
    (WorkReturned /\ Len(host.req) = 2 /\ host.req[1] = HDC_MessageTypeID_Meta) =>
        /\ Len(msgs) = host.base + 1
        /\ SubSeq(msgs[host.base + 1], 1, 2) = host.req
        /\ host.req[2] = HDC_MetaID_MaxReq =>
              msgs[host.base + 1] = host.req \o UInt32LE(HDC_MAX_REQ_MESSAGE_SIZE)

\* C27: when HDC_Work has returned after a Meta request that holds bytes
\* after the MetaID, exactly one message has been composed, and it is the
\* request byte for byte.
C27_MetaTrailingEcho ==
    (WorkReturned /\ Len(host.req) > 2 /\ host.req[1] = HDC_MessageTypeID_Meta) =>
        /\ Len(msgs) = host.base + 1
        /\ msgs[host.base + 1] = host.req


----------------------------------------------------------------------------
(* A host that sends bursts of any kind: garbage, packets behind or before *)
(* garbage, a packet in two bursts, a packet that fills the RX buffer and  *)
(* one that is a byte longer                                               *)

MaxBursts == 2

\* The bursts the host sends
Bursts ==
    {<<255>>,
     <<255, 255, 255>>,
     <<255>> \o PacketOf(EchoRequest(2)),
     PacketOf(EchoRequest(1)) \o <<0>>,
     SubSeq(PacketOf(EchoRequest(2)), 1, 2),
     SubSeq(PacketOf(EchoRequest(2)), 3, 5),
     PacketOf(EchoRequest(1)),
     PacketOf(SetThreshold(255)),
     PacketOf(EchoRequest(HDC_MAX_REQ_MESSAGE_SIZE)),
     PacketOf(EchoRequest(HDC_MAX_REQ_MESSAGE_SIZE + 1))}

\* Core_Init has been called, the host has sent nothing
InitBurst ==
    /\ Features = Core_HDC_Features
    /\ InitCommon(HDC_BUFFER_SIZE_TX)
    /\ BufferRx = EmptyBufferRx
    /\ NumBytesInBufferRx = 0
    /\ calls = Core_Init
    /\ host = [n |-> 0, req |-> <<>>, junk |-> 0, phase |-> "idle", base |-> 0,
               burst |-> <<>>, at |-> 0, mark |-> 0]

\* The host sends a burst and the link signals its end, between two calls of
\* the main loop: burst is what was sent, at the offset of BufferRx where it
\* starts, mark the number of messages composed before
HostBurst ==
    /\ Idle
    /\ pPktStart = NullPtr
    /\ host.n < MaxBursts
    /\ \E d \in Bursts :
          /\ HDC_RxEventCallback(d)
          /\ host' = [n |-> host.n + 1, req |-> <<>>, junk |-> 0, phase |-> "sent",
                      base |-> 0, burst |-> d, at |-> rxPos, mark |-> Len(msgs)]
    /\ UNCHANGED <<featVars, parsed, TX_CAP, txVars, streamVars, pc, calls, pos, linkVars,
                   errorHandler, pkts, msgs, app>>

NextBurst ==
    \/ HostBurst
    \/ HDC_Work
    \/ HDC_ProcessRxBuffer
    \/ HDC_FeatureStateTransition
    \/ HDC_Compose_Packets_From_Stream
    \/ HDC_GetTxBuffer_Switch
    \/ HDC_Work_Tx
    \/ HDC_TxCpltCallback

\* The demo serving a host that sends bursts of any kind
SpecBurst == InitBurst /\ [][NextBurst]_vars


----------------------------------------------------------------------------
(* Claims about the bursts *)

\* The numbers of the messages composed since the last RX event that are
\* Log events of level WARNING on the core feature
WarningsSince ==
    {k \in (host.mark + 1)..Len(msgs) :
        /\ Len(msgs[k]) >= 4
        /\ SubSeq(msgs[k], 1, 4) = <<HDC_MessageTypeID_Event, HDC_FeatureID_Core,
                                     HDC_EventID_Log, HDC_EventLogLevel_WARNING>>}

\* The reading-frame warning as a message
FrameWarning ==
    <<HDC_MessageTypeID_Event, HDC_FeatureID_Core, HDC_EventID_Log,
      HDC_EventLogLevel_WARNING>> \o Text_ReadingFrameErrors

\* C29: since the last RX event at most one Log event of level WARNING has
\* been composed, and once it has, the RX event is consumed: the pass of
\* HDC_ProcessRxBuffer that counted reading-frame errors has restarted the
\* reception, and a call of HDC_Work without a new RX event does not
\* process the buffer again.
C29_WarningOncePerBurst ==
    /\ [](host.n > 0 =>
            /\ Cardinality(WarningsSince) <= 1
            /\ WarningsSince # {} => ~isDmaRxComplete)
    /\ [][(Running("rx") /\ calls' # calls /\ parsed'.err > 0) =>
            (isDmaRxComplete' = FALSE /\ rxPos' = 0)]_vars
    /\ [][(host.n > 0 /\ WarningsSince # {} /\ Idle /\ calls' # calls) =>
            calls' = <<WorkTxCall>>]_vars

\* C29 witness: the second burst was three garbage bytes, the warning has been
\* composed for it, and the main loop is between two calls of HDC_Work.
C29_Witness ==
    /\ host.n = 2
    /\ host.burst = <<255, 255, 255>>
    /\ Quiescent
    /\ parsed.pkt = NoPacket
    /\ parsed.err > 0
    /\ Len(msgs) = host.mark + 1
    /\ msgs[Len(msgs)] = FrameWarning


\* The packet that fills the RX buffer, and the packet that is a byte longer
FullPacket == PacketOf(EchoRequest(HDC_MAX_REQ_MESSAGE_SIZE))

OversizePacket == PacketOf(EchoRequest(HDC_MAX_REQ_MESSAGE_SIZE + 1))

\* C30: a packet with payload size HDC_MAX_REQ_MESSAGE_SIZE that arrives at
\* the start of the RX buffer fills it, the DMA position reported is 0 and
\* the buffer counts as full; the next pass of HDC_ProcessRxBuffer finds the
\* packet at offset 0 with no reading-frame error and dispatches it, and
\* the request is echoed.  No packet that is dispatched has a payload size
\* above HDC_MAX_REQ_MESSAGE_SIZE, and the burst of a packet with payload
\* size HDC_MAX_REQ_MESSAGE_SIZE + 1 is never dispatched.
C30_FullBufferPacket ==
    /\ []((host.n > 0 /\ host.burst = FullPacket /\ host.at = 0) =>
            /\ Len(host.burst) = HDC_BUFFER_SIZE_RX
            /\ NumBytesInBufferRx = HDC_BUFFER_SIZE_RX
            /\ host.phase = "sent" => isDmaRxComplete /\ rxPos = 0
            /\ WorkReturned =>
                  /\ parsed = [pkt |-> 0, err |-> 0]
                  /\ Len(msgs) = host.base + 1
                  /\ msgs[Len(msgs)] = EchoRequest(HDC_MAX_REQ_MESSAGE_SIZE))
    /\ [][(host.n > 0 /\ host.burst = FullPacket /\ host.at = 0
           /\ Running("rx") /\ calls' # calls) =>
             (parsed' = [pkt |-> 0, err |-> 0] /\ host'.phase = "dispatched")]_vars
    /\ [](host.phase = "dispatched" =>
            parsed.pkt # NoPacket /\ BufferRx[parsed.pkt] <= HDC_MAX_REQ_MESSAGE_SIZE)
    /\ []((host.n > 0 /\ host.burst = OversizePacket) => host.phase = "sent")

\* C30 witness: HDC_Work has returned after the second burst, the packet
\* that fills the RX buffer from its start, and the echo has been composed.
C30_Witness ==
    /\ WorkReturned
    /\ host.n = 2
    /\ host.burst = FullPacket
    /\ host.at = 0
    /\ NumBytesInBufferRx = HDC_BUFFER_SIZE_RX
    /\ parsed = [pkt |-> 0, err |-> 0]
    /\ msgs[Len(msgs)] = EchoRequest(HDC_MAX_REQ_MESSAGE_SIZE)


----------------------------------------------------------------------------
(* The main loop that keeps calling HDC_Work, and the link that completes   *)
(* every transmit it was given                                             *)

\* The composer driven call by call; the main loop calls HDC_Work again and
\* again, and the link calls HDC_TxCpltCallback after every transmit
SpecLive ==
    /\ InitStream
    /\ [][NextStream]_vars
    /\ []<><<HDC_Work>>_vars
    /\ WF_vars(HDC_TxCpltCallback)

----------------------------------------------------------------------------
(* Claims about the progress of the transmission *)

\* The most packets composed in one behaviour: a message of 510 bytes takes 3
MaxPkts == 3 * MaxMsgs

\* The bytes of the first n packets finalized
FirstPktBytes(n) == Flatten(SubSeq(PktBytes, 1, n))

----------------------------------------------------------------------------
(* Claims about the accounting of the framer *)

\* C31: HDC_ParsePacket ends for every window.  When it returns NULL, it has
\* skipped rf_errors bytes and at the offset it stopped fewer than 3 bytes
\* remain, or the byte there is a payload size of at most
\* HDC_MAX_REQ_MESSAGE_SIZE whose packet is longer than what remains; it
\* never returns NULL otherwise.  When it returns the packet at offset i of
\* N bytes, rf_errors is i plus the bytes behind the packet, which is
\* N - (3 + payload_size).
C31_FramerAccounting ==
    parsed # NotParsed =>
        LET N == NumBytesInBufferRx
        IN IF parsed.pkt = NoPacket
             THEN LET i == parsed.err
                      remaining == N - i
                  IN /\ i \in 0..N
                     /\ \/ remaining < 3
                        \/ /\ BufferRx[i] <= HDC_MAX_REQ_MESSAGE_SIZE
                           /\ 3 + BufferRx[i] > remaining
             ELSE LET i == parsed.pkt
                      payload_size == BufferRx[i]
                      behind == N - (i + 3 + payload_size)
                  IN /\ i \in 0..(N - 3)
                     /\ 3 + payload_size <= N - i
                     /\ behind >= 0
                     /\ parsed.err = i + behind
                     /\ parsed.err = N - (3 + payload_size)

\* C31 witness: a packet was returned from behind a skipped byte, with a byte
\* behind it: 2 reading-frame errors.
C31_Witness ==
    /\ PacketReturned
    /\ parsed.pkt = 1
    /\ NumBytesInBufferRx = parsed.pkt + BufferRx[parsed.pkt] + 4
    /\ parsed.err = 2


----------------------------------------------------------------------------
(* A host that writes a property of a feature that may not be registered *)

\* The features the host addresses: the core feature and one that is not
\* registered
ScriptFeatures == {HDC_FeatureID_Core, 9}

\* The application with TypedProperties after it has called HDC_Init; the
\* host has chosen the feature, the property and the value it will write
InitOrder ==
    /\ Features = Typed_HDC_Features
    /\ InitCommon(HDC_BUFFER_SIZE_TX)
    /\ BufferRx = EmptyBufferRx
    /\ NumBytesInBufferRx = 0
    /\ calls = Core_Init
    /\ \E F \in ScriptFeatures, P \in ScriptProperties, v \in ScriptValues :
          host = [n |-> 0, req |-> <<>>, junk |-> 0, phase |-> "idle", base |-> 0,
                  script |-> <<Cmd(F, HDC_CommandID_SetPropertyValue, <<P>> \o v)>>,
                  got |-> <<>>]

\* The property commands served to a host that writes once
SpecOrder == InitOrder /\ [][NextProperty]_vars

----------------------------------------------------------------------------
(* Claims about the order of the checks of SetPropertyValue *)

\* The value bytes of the SetPropertyValue request
WrittenValue == SubSeq(host.req, 5, Len(host.req))

\* The property descriptors of the feature with the id F, <<>> if there is
\* no such feature
PropertiesOf(F) ==
    IF \E i \in 1..Len(Features) : Features[i].FeatureID = F
      THEN LET i == CHOOSE i \in 1..Len(Features) : Features[i].FeatureID = F
           IN Features[i].Properties \o HDC_MandatoryProperties
              \o (IF F = HDC_FeatureID_Core
                    THEN HDC_MandatoryPropertiesOfCoreFeature ELSE <<>>)
      ELSE <<>>

\* The failure a SetPropertyValue request must be answered with: the first
\* of unknown feature, unknown property, read-only, value size
FirstFailure(req) ==
    LET ds == PropertiesOf(req[2])
        hits == {i \in 1..Len(ds) : ds[i].PropertyID = req[4]}
        d == ds[CHOOSE i \in hits : \A j \in hits : i <= j]
        len == Len(req) - 4
    IN IF \A i \in 1..Len(Features) : Features[i].FeatureID # req[2]
         THEN HDC_CommandErrorCode_UNKNOWN_FEATURE
       ELSE IF hits = {} THEN HDC_CommandErrorCode_UNKNOWN_PROPERTY
       ELSE IF d.PropertyIsReadonly THEN HDC_CommandErrorCode_PROPERTY_IS_READONLY
       ELSE IF d.PropertyDataType \in {HDC_DataTypeID_UTF8, HDC_DataTypeID_BLOB}
         THEN (IF len < d.ValueSize THEN HDC_CommandErrorCode_NO_ERROR
                                    ELSE HDC_CommandErrorCode_INVALID_PROPERTY_VALUE)
       ELSE IF len = TypedReplySize(d.PropertyDataType)
         THEN HDC_CommandErrorCode_NO_ERROR
         ELSE HDC_CommandErrorCode_INVALID_PROPERTY_VALUE

\* C32: a SetPropertyValue request is answered with one reply whose code is
\* the first failure in the order unknown feature, unknown property,
\* read-only, value size; a failure is reported by the 4 bytes 0xF2,
\* FeatureID, CommandID, code alone, and the dispatch of a failing request
\* changes no variable behind a property.
C32_SetCheckOrder ==
    /\ [](WorkReturned =>
            /\ Len(ReplyMsgs) = 1
            /\ Len(ReplyMsgs[1]) >= 4
            /\ SubSeq(ReplyMsgs[1], 1, 3) = SubSeq(host.req, 1, 3)
            /\ ReplyMsgs[1][4] = FirstFailure(host.req)
            /\ FirstFailure(host.req) # HDC_CommandErrorCode_NO_ERROR =>
                  Len(ReplyMsgs[1]) = 4)
    /\ [][Dispatching /\ FirstFailure(host.req) # HDC_CommandErrorCode_NO_ERROR =>
            UNCHANGED featVars]_vars

\* C32 witness: four bytes were written to the read-only string of declared
\* size 4, and the reply is ReadOnlyProperty.
C32_Witness ==
    /\ WorkReturned
    /\ host.req[2] = HDC_FeatureID_Core
    /\ host.req[4] = 35
    /\ WrittenValue = <<9, 8, 7, 6>>
    /\ ReplyMsgs = << <<HDC_MessageTypeID_Command, HDC_FeatureID_Core,
                        HDC_CommandID_SetPropertyValue,
                        HDC_CommandErrorCode_PROPERTY_IS_READONLY>> >>


----------------------------------------------------------------------------
(* An application with or without a router of its own, and a host that     *)
(* sends messages of any type                                              *)

\* The requests the host sends: empty, of the types the router serves and
\* does not serve, of reserved types that are no request, and of the types
\* HDC routes itself
RouterRequests ==
    {<<>>, <<66, 1>>, <<67>>, <<239, 5>>, <<243>>, <<244, 1>>, <<255>>,
     EchoRequest(2), <<HDC_MessageTypeID_Meta>>, SetThreshold(255)}

\* Core_Init has called HDC_Init_WithCustomMsgRouting, with a router or with
\* NULL as HDC_Init does
InitRouter ==
    /\ Features = Core_HDC_Features
    /\ \E router \in {NULL, "AppRouter"} :
          HDC_Init_WithCustomMsgRouting(HDC_BUFFER_SIZE_TX, router)
    /\ BufferRx = EmptyBufferRx
    /\ NumBytesInBufferRx = 0
    /\ host = NoHost
    /\ calls = Core_Init

\* The host sends a request as one burst
HostRouterRequest ==
    /\ Idle
    /\ pPktStart = NullPtr
    /\ ~isDmaRxComplete
    /\ host.n < MaxReqs
    /\ \E r \in RouterRequests :
          /\ HDC_RxEventCallback(PacketOf(r))
          /\ host' = [n |-> host.n + 1, req |-> r, junk |-> 0,
                      phase |-> "sent", base |-> 0]
    /\ UNCHANGED <<featVars, parsed, TX_CAP, txVars, streamVars, pc, calls, pos, linkVars,
                   errorHandler, pkts, msgs, app>>

NextRouter ==
    \/ HostRouterRequest
    \/ HDC_Work
    \/ HDC_ProcessRxBuffer
    \/ HDC_FeatureStateTransition
    \/ HDC_Compose_Packets_From_Stream
    \/ HDC_GetTxBuffer_Switch
    \/ HDC_Work_Tx
    \/ HDC_TxCpltCallback

\* The demo, with and without a router, serving messages of any type
SpecRouter == InitRouter /\ [][NextRouter]_vars

----------------------------------------------------------------------------
(* Claims about the routing of messages *)

\* The Log event of the core feature for "Unknown message type"
UnknownTypeLog ==
    <<HDC_MessageTypeID_Event, HDC_FeatureID_Core, HDC_EventID_Log, HDC_EventLogLevel_ERROR>>
    \o Text_UnknownMessageType

\* The request of the host is for the router: it is not empty and its type
\* is below 0xF0
ForRouter == host.req # <<>> /\ host.req[1] < 240

\* The request of the host is neither routed by HDC nor by the router
NotRouted ==
    /\ host.req # <<>>
    /\ host.req[1] \notin {HDC_MessageTypeID_Meta, HDC_MessageTypeID_Echo,
                           HDC_MessageTypeID_Command}
    /\ \/ CustomMsgRouter = NULL
       \/ host.req[1] >= 240
       \/ host.req[1] \notin RoutedTypes

ProcessesRxBuffer == Running("rx") /\ calls' # calls

\* C34: a pass of HDC_ProcessRxBuffer that found a packet or counted
\* reading-frame errors clears isDmaRxComplete and restarts the reception at
\* offset 0 of the RX buffer, and nothing has been composed by then: the
\* messages, the packets and the TX buffers are as before the pass, and
\* whenever a message has been composed since the RX event, the reception
\* has been restarted.  A pass that found neither leaves isDmaRxComplete,
\* the position of the reception, NumBytesInBufferRx and the RX buffer as
\* they were and queues nothing.
C34_RearmBeforeDispatch ==
    /\ [][ProcessesRxBuffer =>
            IF parsed'.pkt # NoPacket \/ parsed'.err > 0
              THEN /\ isDmaRxComplete' = FALSE
                   /\ rxPos' = 0
                   /\ UNCHANGED <<msgs, pkts, txVars, streamVars, sent>>
              ELSE /\ UNCHANGED <<isDmaRxComplete, rxPos, NumBytesInBufferRx, BufferRx>>
                   /\ isDmaRxComplete
                   /\ calls' = Tail(calls)
                   /\ UNCHANGED <<featVars, msgs, pkts, txVars>>]_vars
    /\ []((host.n > 0 /\ Len(msgs) > host.mark) => (~isDmaRxComplete /\ rxPos = 0))

\* C34 witness: the first two bytes of a packet were received as the second
\* burst and parsed; the reception goes on behind them.
C34_Witness ==
    /\ host.n = 2
    /\ host.burst = SubSeq(PacketOf(EchoRequest(2)), 1, 2)
    /\ host.at = 0
    /\ Quiescent
    /\ parsed = [pkt |-> NoPacket, err |-> 0]
    /\ isDmaRxComplete
    /\ rxPos = 2
    /\ NumBytesInBufferRx = 2


----------------------------------------------------------------------------
(* Claims about the lengths handed to the link *)

\* The step of HDC_GetTxBufferWithCapacityForAtLeast that switches the
\* buffers and calls HAL_UART_Transmit_DMA
StartsTransmit == pc = "wait" /\ pc' = "run"

\* The main thread is at the request of HDC_Work or of HDC_Flush for a whole
\* buffer, and the composition buffer is empty
NothingPending ==
    /\ Running("worktx") \/ Running("pending")
    /\ NumBytesInBufferTx[indexOfBufferBeingComposed] = 0

\* C35: the byte count of either TX buffer is at most HDC_BUFFER_SIZE_TX;
\* every transmit is started with a length of 1 to HDC_BUFFER_SIZE_TX bytes,
\* the byte count of the buffer handed over, and is accepted by the link;
\* HDC_Work and HDC_Flush with an empty composition buffer do not wait,
\* switch no buffers and start no transmit.
C35_TransmitLengths ==
    /\ [](\A b \in 0..1 : NumBytesInBufferTx[b] \in 0..TX_CAP)
    /\ [](linkBusy => linkLen \in 1..TX_CAP)
    /\ [][StartsTransmit =>
            /\ ~errorHandler'
            /\ linkBusy'
            /\ linkLen' = NumBytesInBufferTx'[currentDmaBufferTx']
            /\ linkLen' \in 1..TX_CAP
            /\ Len(sent') = Len(sent) + linkLen']_vars
    /\ [][NothingPending =>
            /\ pc' = "run"
            /\ UNCHANGED <<currentDmaBufferTx, NumBytesInBufferTx, BufferTx, sent, linkLen>>
            /\ linkBusy' => linkBusy]_vars

\* C35 witness: at least a buffer's worth of bytes has been handed to the
\* link, the composition buffer is empty and HDC_Flush is about to request
\* a whole buffer.
C35_Witness ==
    /\ NothingPending
    /\ Running("pending")
    /\ Len(sent) >= TX_CAP
    /\ linkLen \in 1..TX_CAP


----------------------------------------------------------------------------
(* Claims about the string properties *)

\* The bytes of v before its first zero byte
CutAtZero(v) == SubSeq(v, 1, Strlen(v))

\* The host writes a writable UTF8 property that has a variable behind it
ScriptWritesString ==
    /\ ScriptProperty # NoDescriptor
    /\ ScriptProperty.PropertyDataType = HDC_DataTypeID_UTF8
    /\ ~ScriptProperty.PropertyIsReadonly
    /\ ScriptProperty.SetPropertyValue = NULL
    /\ ScriptProperty.GetPropertyValue = NULL
    /\ ScriptProperty.pValue # NULL

\* C36: once a SetPropertyValue of the bytes v on a writable UTF8 property
\* has succeeded, the variable holds v followed by a zero byte; the reply to
\* the SetPropertyValue and the reply to the GetPropertyValue after it carry
\* v up to its first zero byte, all of v when it has none, which is at most
\* ValueSize - 1 bytes and has nothing of the value stored before.
C36_StringRoundTrip ==
    /\ (SetAnswered /\ ScriptWritesString /\ Len(ReplyMsgs) = 1
          /\ Len(ReplyMsgs[1]) >= 4 /\ ReplyMsgs[1][4] = HDC_CommandErrorCode_NO_ERROR) =>
          /\ Len(ScriptV) <= ScriptProperty.ValueSize - 1
          /\ SubSeq(mem[ScriptProperty.pValue], 1, Len(ScriptV) + 1) = ScriptV \o <<0>>
          /\ ValueOf(ReplyMsgs[1]) = CutAtZero(ScriptV)
    /\ (ScriptDone /\ ScriptWritesString /\ SetSucceeded) =>
          /\ SubSeq(mem[ScriptProperty.pValue], 1, Len(ScriptV) + 1) = ScriptV \o <<0>>
          /\ Len(ReplyMsgs) = 1
          /\ ValueOf(ReplyMsgs[1]) = CutAtZero(ScriptV)
          /\ ValueOf(host.got[2][1]) = CutAtZero(ScriptV)
          /\ Len(ValueOf(ReplyMsgs[1])) <= ScriptProperty.ValueSize - 1

\* C36 witness: the variable held "hi"; the host has written the one byte 7
\* and read it back as the one byte 7.
C36_Witness ==
    /\ ScriptDone
    /\ SetSucceeded
    /\ ScriptP = 32
    /\ ScriptV = <<7>>
    /\ TypedMemory.text = <<104, 105, 0, 0>>
    /\ mem.text = <<7, 0, 0, 0>>
    /\ ValueOf(ReplyMsgs[1]) = <<7>>


----------------------------------------------------------------------------
(* The properties of a feature as the description of the device, the       *)
(* property AvailableProperties and GetPropertyValue present them          *)

\* The PropertyIDs the host asks for: of the demo, of the mandatory
\* descriptors, of those of the core feature, and one no descriptor has
ViewIDs ==
    {16, 85, HDC_PropertyID_LogEventThreshold, HDC_PropertyID_FeatureState,
     HDC_PropertyID_AvailableProperties, HDC_PropertyID_AvailableFeatures,
     HDC_PropertyID_MaxReqMsgSize}

\* The application has called HDC_Init with one of FeatureTables; the host
\* has chosen a feature F of the table and a PropertyID P: it will read
\* AvailableProperties of F and then P of F
InitViews ==
    /\ Features \in FeatureTables
    /\ InitCommon(HDC_BUFFER_SIZE_TX)
    /\ BufferRx = EmptyBufferRx
    /\ NumBytesInBufferRx = 0
    /\ calls = <<>>
    /\ \E fi \in 1..Len(Features), P \in ViewIDs :
          host = [n |-> 0, req |-> <<>>, junk |-> 0, phase |-> "idle", base |-> 0,
                  script |-> << Cmd(Features[fi].FeatureID, HDC_CommandID_GetPropertyValue,
                                    <<HDC_PropertyID_AvailableProperties>>),
                                Cmd(Features[fi].FeatureID, HDC_CommandID_GetPropertyValue,
                                    <<P>>) >>,
                  got |-> <<>>]

NextViews ==
    \/ HostPropertyRequest
    \/ HDC_Work
    \/ HDC_ProcessRxBuffer
    \/ HDC_Compose_Packets_From_Stream
    \/ HDC_GetTxBuffer_Switch
    \/ HDC_Work_Tx
    \/ HDC_TxCpltCallback

\* GetPropertyValue served to a host that reads AvailableProperties and one
\* more property of a feature
SpecViews == InitViews /\ [][NextViews]_vars

----------------------------------------------------------------------------
(* Claims about the three views of the properties of a feature *)

\* The bytes the calls lo to hi of cs hand to HDC_Compose_Packets_From_Stream
RECURSIVE StreamedBytesOf(_, _, _)
StreamedBytesOf(cs, lo, hi) ==
    IF lo > hi THEN <<>>
    ELSE IF lo = hi THEN SubSeq(cs[lo].data, 1, cs[lo].size)
    ELSE StreamedBytesOf(cs, lo, (lo + hi) \div 2)
         \o StreamedBytesOf(cs, ((lo + hi) \div 2) + 1, hi)

\* The bytes the calls cs hand to HDC_Compose_Packets_From_Stream
StreamedBytes(cs) == StreamedBytesOf(cs, 1, Len(cs))

\* The text pat stands in s at position i
TextAt(s, i, pat) ==
    /\ i + Len(pat) - 1 <= Len(s)
    /\ SubSeq(s, i, i + Len(pat) - 1) = pat

\* The decimal number that stands in s at position i, after acc
RECURSIVE NumberAt(_, _, _)
NumberAt(s, i, acc) ==
    IF i <= Len(s) /\ s[i] \in 48..57
      THEN NumberAt(s, i + 1, 10 * acc + (s[i] - 48))
      ELSE acc

\* {"id":
Text_ObjectWithId == <<123, 34>> \o Text_id \o <<34, 58>>

\* "properties":[
Text_PropertiesArray == <<34>> \o Text_properties \o <<34, 58, 91>>

\* The ids of the objects in the array "properties" of the description of
\* one feature, as a reader of the text finds them
ListedInJson(d) ==
    LET s == StreamedBytes(HDC_JSON_Feature(d))
        start == CHOOSE i \in 1..Len(s) : TextAt(s, i, Text_PropertiesArray)
    IN {NumberAt(s, i + Len(Text_ObjectWithId), 0) :
          i \in {k \in start..Len(s) : TextAt(s, k, Text_ObjectWithId)}}

\* The feature the host addresses and the PropertyID of its second request
ViewFeature == Features[HDC_GetFeature(host.script[1][2])]

ViewP == host.script[2][4]

\* The IDs the reply to the first request carried
ListedByGetter == {ValueOf(host.got[1][1])[i] : i \in 1..Len(ValueOf(host.got[1][1]))}

\* The second request was not answered with UnknownProperty
Answered ==
    /\ Len(ReplyMsgs) = 1
    /\ Len(ReplyMsgs[1]) >= 4
    /\ ReplyMsgs[1][4] # HDC_CommandErrorCode_UNKNOWN_PROPERTY

\* C37: for every feature of the table, with the ID of the core feature or
\* not, a PropertyID is listed in the description of the feature exactly
\* when the reply to GetPropertyValue(AvailableProperties) lists it, and
\* exactly when GetPropertyValue of it is not answered with UnknownProperty.
C37_PropertyViewsAgree ==
    (ScriptDone /\ Len(host.script) = 2 /\ Len(host.got) = 1 /\ Len(host.got[1]) = 1) =>
        /\ ListedInJson(ViewFeature) = ListedByGetter
        /\ ViewP \in ListedByGetter <=> Answered
        /\ ViewP \in ListedInJson(ViewFeature) <=> Answered


----------------------------------------------------------------------------
(* SetPropertyValue requests that end before the PropertyID *)

\* The SetPropertyValue request of 3 bytes for feature F
ShortSet(F) == Cmd(F, HDC_CommandID_SetPropertyValue, <<>>)

\* A writable one-byte property of an application whose PropertyID is the
\* checksum of the packet of ShortSet(HDC_FeatureID_Core)
KeyedProperties ==
    << [PropertyID |-> HostChecksum(ShortSet(HDC_FeatureID_Core)),
        PropertyDataType |-> HDC_DataTypeID_UINT8,
        PropertyIsReadonly |-> FALSE, GetPropertyValue |-> NULL,
        SetPropertyValue |-> NULL, pValue |-> "led_blinking_rate", ValueSize |-> 0] >>

\* The core feature of that application
Keyed_HDC_Feature ==
    [FeatureID |-> HDC_FeatureID_Core,
     Commands |-> Core_HDC_Commands,
     Properties |-> TypedProperties \o KeyedProperties]

\* The properties the host reads after its short request
ShortProperties == {32, 33, 34, HostChecksum(ShortSet(HDC_FeatureID_Core))}

\* The application has called HDC_Init with the typed properties, with or
\* without the keyed one; the host will send ShortSet(F) and then read a
\* property
InitShort ==
    /\ Features \in {Typed_HDC_Features, <<Keyed_HDC_Feature>>}
    /\ InitCommon(HDC_BUFFER_SIZE_TX)
    /\ BufferRx = EmptyBufferRx
    /\ NumBytesInBufferRx = 0
    /\ calls = Core_Init
    /\ \E F \in ScriptFeatures, P \in ShortProperties :
          host = [n |-> 0, req |-> <<>>, junk |-> 0, phase |-> "idle", base |-> 0,
                  script |-> <<ShortSet(F),
                               Cmd(F, HDC_CommandID_GetPropertyValue, <<P>>)>>,
                  got |-> <<>>]

\* The property commands served to a host that sends a SetPropertyValue
\* request without PropertyID
SpecShort == InitShort /\ [][NextProperty]_vars

----------------------------------------------------------------------------
(* Claims about SetPropertyValue requests that end before the PropertyID *)

\* The code of the reply to a SetPropertyValue request for feature F that
\* carries a value of size bytes, when the property is looked up with id
CodeForID(F, id, size) ==
    LET ds == PropertiesOf(F)
        hits == {i \in 1..Len(ds) : ds[i].PropertyID = id}
        d == ds[CHOOSE i \in hits : \A j \in hits : i <= j]
    IN IF \A i \in 1..Len(Features) : Features[i].FeatureID # F
         THEN HDC_CommandErrorCode_UNKNOWN_FEATURE
       ELSE IF hits = {} THEN HDC_CommandErrorCode_UNKNOWN_PROPERTY
       ELSE IF d.PropertyIsReadonly THEN HDC_CommandErrorCode_PROPERTY_IS_READONLY
       ELSE IF ValueSizeRejected(d, size) THEN HDC_CommandErrorCode_INVALID_PROPERTY_VALUE
       ELSE HDC_CommandErrorCode_NO_ERROR

\* The request of the host is a SetPropertyValue request of 3 bytes
ShortSetSent == host.n = 1 /\ host.req = ShortSet(host.req[2])

\* C38: dispatching a SetPropertyValue request of 3 bytes changes no
\* variable behind a property, and it is answered with one reply whose code
\* is that of a property lookup with one of the 3 bytes of the request as
\* PropertyID, never that of a lookup with a byte from behind the request.
C38_ShortSet ==
    /\ [][(Dispatching /\ host.n = 1) => UNCHANGED featVars]_vars
    /\ []((WorkReturned /\ ShortSetSent) =>
            /\ Len(ReplyMsgs) = 1
            /\ Len(ReplyMsgs[1]) = 4
            /\ ReplyMsgs[1][4] \in {CodeForID(host.req[2], host.req[k], 255) : k \in 1..3})


----------------------------------------------------------------------------
(* A host whose bursts fill the RX buffer *)

\* n bytes that are no packet terminator and no payload size
Filler(n) == [i \in 1..n |-> 255]

\* The bursts of that host: a stray payload size, the first two bytes of a
\* packet, what fills the buffer behind either, a buffer full of filler, a
\* packet as long as the buffer with and without its terminator
FullBursts ==
    {<<100>>,
     SubSeq(PacketOf(EchoRequest(2)), 1, 2),
     SubSeq(PacketOf(EchoRequest(HDC_MAX_REQ_MESSAGE_SIZE)), 1, HDC_BUFFER_SIZE_RX - 1),
     <<7>> \o Filler(HDC_BUFFER_SIZE_RX - 3),
     Filler(HDC_BUFFER_SIZE_RX),
     PacketOf(EchoRequest(HDC_MAX_REQ_MESSAGE_SIZE)),
     SubSeq(PacketOf(EchoRequest(HDC_MAX_REQ_MESSAGE_SIZE)), 1, HDC_BUFFER_SIZE_RX - 1)
       \o <<0>>}

\* The host sends one of FullBursts and the link signals its end, between
\* two calls of the main loop
HostFullBurst ==
    /\ Idle
    /\ pPktStart = NullPtr
    /\ host.n < MaxBursts
    /\ \E d \in FullBursts :
          /\ HDC_RxEventCallback(d)
          /\ host' = [n |-> host.n + 1, req |-> <<>>, junk |-> 0, phase |-> "sent",
                      base |-> 0, burst |-> d, at |-> rxPos, mark |-> Len(msgs)]
    /\ UNCHANGED <<featVars, parsed, TX_CAP, txVars, streamVars, pc, calls, pos, linkVars,
                   errorHandler, pkts, msgs, app>>

NextFull ==
    \/ HostFullBurst
    \/ HDC_Work
    \/ HDC_ProcessRxBuffer
    \/ HDC_FeatureStateTransition
    \/ HDC_Compose_Packets_From_Stream
    \/ HDC_GetTxBuffer_Switch
    \/ HDC_Work_Tx
    \/ HDC_TxCpltCallback

\* The demo serving a host whose bursts fill the RX buffer
SpecFull == InitBurst /\ [][NextFull]_vars

----------------------------------------------------------------------------
(* Claims about a full RX buffer *)

\* C39: a pass of HDC_ProcessRxBuffer over a full RX buffer finds a packet or
\* counts at least one reading-frame error, and the reception is restarted
\* at offset 0 with isDmaRxComplete cleared, so that no later call of
\* HDC_Work parses the same full buffer again.
C39_FullBufferRearmed ==
    [][(ProcessesRxBuffer /\ NumBytesInBufferRx = HDC_BUFFER_SIZE_RX) =>
          /\ parsed'.pkt # NoPacket \/ parsed'.err > 0
          /\ isDmaRxComplete' = FALSE
          /\ rxPos' = 0]_vars

\* C39 witness: the stray payload size 100 was left in the RX buffer, the
\* second burst filled the buffer behind it, and the pass over the full
\* buffer counted reading-frame errors and restarted the reception.
C39_Witness ==
    /\ host.n = 2
    /\ host.at = 1
    /\ NumBytesInBufferRx = HDC_BUFFER_SIZE_RX
    /\ BufferRx[0] = 100
    /\ parsed.pkt = NoPacket
    /\ parsed.err > 0
    /\ ~isDmaRxComplete
    /\ rxPos = 0


----------------------------------------------------------------------------
(* A host whose request packets follow stray bytes, a main loop that keeps *)
(* calling HDC_Work and a link that completes every transmit               *)

\* The request packets of that host
StrayPackets == {PacketOf(EchoRequest(1)), PacketOf(EchoRequest(2))}

\* The bursts of that host: a stray byte that is a payload size, one that is
\* none, the first two bytes of a packet, and whole request packets
StrayBursts ==
    {<<100>>, <<255>>, SubSeq(PacketOf(EchoRequest(2)), 1, 2)} \cup StrayPackets

\* The last burst of the host was the whole request packet p and is still
\* to be dispatched
Delivered(p) == host.n > 0 /\ host.burst = p /\ host.phase = "sent"

\* The host sends one of StrayBursts and the link signals its end, between
\* two calls of the main loop; after a whole request packet it sends nothing
\* until the request was dispatched
HostStrayBurst ==
    /\ Idle
    /\ pPktStart = NullPtr
    /\ host.n < MaxBursts
    /\ \A p \in StrayPackets : ~Delivered(p)
    /\ \E d \in StrayBursts :
          /\ HDC_RxEventCallback(d)
          /\ host' = [n |-> host.n + 1, req |-> <<>>, junk |-> 0, phase |-> "sent",
                      base |-> 0, burst |-> d, at |-> rxPos, mark |-> Len(msgs)]
    /\ UNCHANGED <<featVars, parsed, TX_CAP, txVars, streamVars, pc, calls, pos, linkVars,
                   errorHandler, pkts, msgs, app>>

NextStray ==
    \/ HostStrayBurst
    \/ HDC_Work
    \/ HDC_ProcessRxBuffer
    \/ HDC_FeatureStateTransition
    \/ HDC_Compose_Packets_From_Stream
    \/ HDC_GetTxBuffer_Switch
    \/ HDC_Work_Tx
    \/ HDC_TxCpltCallback

\* The demo serving that host; the main loop calls HDC_Work again and again,
\* and the link calls HDC_TxCpltCallback after every transmit
SpecStray ==
    /\ InitBurst
    /\ [][NextStray]_vars
    /\ []<><<HDC_Work>>_vars
    /\ WF_vars(HDC_TxCpltCallback)

----------------------------------------------------------------------------
(* Claims about the liveness of the reception *)

\* The packet found where the last burst of the host began was dispatched
DispatchedWhereDelivered == host.phase = "dispatched" /\ parsed.pkt = host.at

\* C40: when HDC_Work keeps being called, a whole well-formed request packet
\* the link has delivered into the RX buffer is eventually dispatched,
\* whatever was received before it since the reception was last restarted.
C40_ReceptionLive ==
    \A p \in StrayPackets : Delivered(p) ~> DispatchedWhereDelivered

====
